---- MODULE Spec2Model ----
(***************************************************************************)
(* Request dispatch core of CottonJS (create-cotton-app, basic template):  *)
(* the route matcher, the top-level dispatcher, the page pipeline and the  *)
(* API dispatcher with its two middleware tiers.                           *)
(*                                                                         *)
(* Strings that the code inspects character by character (request paths,   *)
(* route keys) are sequences of one-character strings.                     *)
(***************************************************************************)
EXTENDS Integers, Sequences, FiniteSets, TLC

VARIABLES
    platform,   \* "win32" | "posix": decides path.sep used by path.join/relative
    variant,    \* which copy of core/http-serve-utils.js is running: "core" | "template"
    routes,     \* route.config.js: the route keys in declaration order (Object.keys)
    routeDef,   \* routes[key] for the keys of the table: [loader, page] presence
    pathname,   \* parse(req.url).pathname
    reqMethod,  \* req.method
    pc,         \* position of the request's task (the await it is suspended at)
    matched,    \* result of getMatchingRoute
    served,     \* which server function took the request: none|file|api|page|notfound
    modulePath, \* serveApi: modulePath after the replace (segments, trailing separator)
    methodName, \* serveApi: methodName, <<>> when undefined
    imported,   \* specifiers handed to import(), in order
    module,     \* the module object the import resolved to
    lookedUp,   \* export names read as module[methodName]
    middlewareMethod, \* the function last handed to getFormattedMiddlewareOutput
    primary,    \* [error, output] of the primary middleware evaluation
    secondary,  \* [error, output] of the secondary middleware evaluation
    loaderFunc, \* the loader function getLoaderData called
    loader,     \* [error, data] of getLoaderData
    cotton_data, \* servePage: the Cotton Data built from the route and the loader
    renderProps, \* what createElement was given as props, <<>> when not called
    page,       \* [error, html] of getPageHtmlWithData
    res,        \* the ServerResponse: status, headers, body, number of writeHead calls
    log,        \* invocation history of this request
    unhandled,  \* TRUE once an exception left the request's task uncaught
    extended,   \* server.js: IncomingMessage.prototype carries httpRequestExtensions
    parked,     \* the other in-flight request's task, suspended at an await
    throttlerTimerId,   \* cotton.js: id of the last timer set, 0 when undefined
    isReloadInProgress, \* cotton.js: FALSE also stands for the initial undefined
    serverProcess,      \* cotton.js: index in procs of the last server forked, 0 for null
    builderProcess,     \* cotton.js: index in procs of the last builder forked, 0 for null
    procs,      \* the child processes forked so far, in fork order
    timers,     \* ids of the timers set and neither cleared nor expired
    clients,    \* webSocketServer.clients
    notified,   \* the clients the last reload message went to
    changes,    \* number of watcher events so far
    bursts,     \* number of watcher events that found no timer pending
    expiries    \* number of timer callbacks run so far

\* the state of one request's task
request == << pathname, reqMethod, pc, matched, served, modulePath, methodName,
              imported, module, lookedUp, middlewareMethod, primary, secondary,
              loaderFunc, loader, cotton_data, renderProps, page, res, log,
              unhandled >>

\* the state of the development orchestrator (cotton.js)
orchestrator == << throttlerTimerId, isReloadInProgress, serverProcess,
                   builderProcess, procs, timers, clients, notified, changes,
                   bursts, expiries >>

vars == << platform, variant, routes, routeDef, request, extended, parked,
           orchestrator >>

----------------------------------------------------------------------------
(* Bounds of the route-matcher inputs *)

MaxRoutes == 2

MaxPathSegs == 2

----------------------------------------------------------------------------
(* Character strings *)

\* String.prototype.toLowerCase on the letters the model uses; the "i" flag
\* of RegExp compares characters up to this folding.
LowerWrong(c) == c

Lower(c) ==
    CASE c = "A" -> "a"
      [] c = "B" -> "b"
      [] c = "E" -> "e"
      [] c = "G" -> "g"
      [] c = "I" -> "i"
      [] c = "O" -> "o"
      [] c = "P" -> "p"
      [] c = "S" -> "s"
      [] c = "T" -> "t"
      [] c = "X" -> "x"
      [] OTHER -> c

\* /\/$/.test(s)
EndsWithSlash(s) == Len(s) > 0 /\ s[Len(s)] = "/"

\* /\/$/.test(s) ? s : s + "/"
WithTrailingSlash(s) == IF EndsWithSlash(s) THEN s ELSE Append(s, "/")

\* String.prototype.startsWith
StartsWith(s, prefix) ==
    /\ Len(s) >= Len(prefix)
    /\ SubSeq(s, 1, Len(prefix)) = prefix

\* length of the longest run of non-slash characters of s that begins at i:
\* what the character class [^\/]+ can take there
RECURSIVE RunLen(_, _)
RunLen(s, i) ==
    IF i > Len(s) \/ s[i] = "/" THEN 0 ELSE 1 + RunLen(s, i + 1)

\* "/" + segs.join("/") (+ "/")
RECURSIVE JoinSegs(_)
JoinSegs(segs) ==
    IF segs = <<>> THEN <<>> ELSE <<"/">> \o Head(segs) \o JoinSegs(Tail(segs))

PathOf(segs, trailing) ==
    IF segs = <<>> THEN <<"/">>
    ELSE JoinSegs(segs) \o (IF trailing THEN <<"/">> ELSE <<>>)

----------------------------------------------------------------------------
(* Route matcher: core/route-utils.js *)

\* The three replacements of /:[^\/]+/g in a route key. A regular expression
\* is a sequence of items: a literal character, or a run [^\/]+ that may be
\* a capturing group.
Lit(c) == [k |-> "lit", c |-> c, cap |-> FALSE]

Run(cap) == [k |-> "run", c |-> "", cap |-> cap]

\* normalized_route.replace(/:[^\/]+/g, repl): every ":" followed by at least
\* one non-slash character, together with that run, becomes repl; every other
\* character stays a literal of the pattern.
RECURSIVE ReplaceParams(_, _, _)
ReplaceParams(route, i, repl) ==
    IF i > Len(route) THEN <<>>
    ELSE IF route[i] = ":" /\ RunLen(route, i + 1) > 0
         THEN repl \o ReplaceParams(route, i + 1 + RunLen(route, i + 1), repl)
         ELSE <<Lit(route[i])>> \o ReplaceParams(route, i + 1, repl)

\* "[^\\/]+"
ReplWild == <<Run(FALSE)>>

\* ":([^\\/]+)"
ReplKey == <<Lit(":"), Run(TRUE)>>

\* "([^\\/]+)"
ReplValue == <<Run(TRUE)>>

\* RegExp "^" + items + "$" with flag "i", applied to s from item i and
\* character j: <<>> when there is no match (null), otherwise <<captures>>.
\* A run is greedy and backtracks.
RECURSIVE ExecFrom(_, _, _, _)
RECURSIVE TryRun(_, _, _, _, _)
ExecFrom(re, i, s, j) ==
    IF i > Len(re)
    THEN (IF j > Len(s) THEN << <<>> >> ELSE <<>>)
    ELSE IF re[i].k = "lit"
         THEN IF j <= Len(s) /\ Lower(re[i].c) = Lower(s[j])
              THEN ExecFrom(re, i + 1, s, j + 1)
              ELSE <<>>
         ELSE TryRun(re, i, s, j, RunLen(s, j))

TryRun(re, i, s, j, n) ==
    IF n < 1 THEN <<>>
    ELSE LET rest == ExecFrom(re, i + 1, s, j + n)
         IN  IF rest # <<>>
             THEN << (IF re[i].cap THEN <<SubSeq(s, j, j + n - 1)>> ELSE <<>>)
                     \o rest[1] >>
             ELSE TryRun(re, i, s, j, n - 1)

RegExpExec(re, s) == ExecFrom(re, 1, s, 1)

\* the filter callback of getMatchingRoute: routeRegex.test(normalizedUrl)
RouteRegexTest(route, normalizedUrl) ==
    RegExpExec(ReplaceParams(WithTrailingSlash(route), 1, ReplWild),
               normalizedUrl) # <<>>

\* Object.keys(routes).filter(...)
MatchingRoutesWrong(table, normalizedUrl) ==
    LET RECURSIVE F(_)
        F(i) == IF i < 1 THEN <<>>
                ELSE (IF RouteRegexTest(table[i], normalizedUrl)
                      THEN <<table[i]>> ELSE <<>>) \o F(i - 1)
    IN  F(Len(table))

MatchingRoutes(table, normalizedUrl) ==
    LET RECURSIVE F(_)
        F(i) == IF i > Len(table) THEN <<>>
                ELSE (IF RouteRegexTest(table[i], normalizedUrl)
                      THEN <<table[i]>> ELSE <<>>) \o F(i + 1)
    IN  F(1)

EmptyParams == [n \in {} |-> <<>>]

AssignParamsWrong(keys, values, n) ==
    [k \in {keys[i] : i \in 1..n} |->
        values[CHOOSE i \in 1..n : keys[i] = k /\ \A j \in 1..(i - 1) : keys[j] # k]]

\* for (let i = 1; i < keyMatches.length; i++) params[keyMatches[i]] = valueMatches[i]
RECURSIVE AssignParams(_, _, _)
AssignParams(keys, values, n) ==
    IF n < 1 THEN EmptyParams
    ELSE (keys[n] :> values[n]) @@ AssignParams(keys, values, n - 1)

\* the extraction of lines 23-48 for the winning key
ExtractParams(match, normalizedUrl) ==
    LET normalizedMatch == WithTrailingSlash(match)
        keyMatches == RegExpExec(ReplaceParams(normalizedMatch, 1, ReplKey),
                                 normalizedMatch)
        valueMatches == RegExpExec(ReplaceParams(normalizedMatch, 1, ReplValue),
                                   normalizedUrl)
    IN  IF keyMatches # <<>> /\ valueMatches # <<>>
           /\ Len(keyMatches[1]) = Len(valueMatches[1])
        THEN AssignParams(keyMatches[1], valueMatches[1], Len(keyMatches[1]))
        ELSE EmptyParams

NoMatch == [found |-> FALSE, route |-> <<>>, params |-> EmptyParams]

NormalizeUrlWrong(p) == p

\* let normalized_url = /\/$/.test(pathname) ? pathname : pathname + "/"
NormalizeUrl(p) == WithTrailingSlash(p)

getMatchingRoute(table, p) ==
    LET normalizedUrl == NormalizeUrl(p)
        matchingRoutes == MatchingRoutes(table, normalizedUrl)
    IN  IF Len(matchingRoutes) > 0
        THEN [found |-> TRUE, route |-> matchingRoutes[1],
              params |-> ExtractParams(matchingRoutes[1], normalizedUrl)]
        ELSE NoMatch

----------------------------------------------------------------------------
(* Path handling of serveApi: path.join, the module-path regex, path.relative *)

SRC == <<"s", "r", "c">>

API == <<"a", "p", "i">>

DOTDOT == <<".", ".">>

\* path.sep
Sep(pf) == IF pf = "win32" THEN "\\" ELSE "/"

\* s.split(sep)
RECURSIVE SplitFrom(_, _, _, _)
SplitFrom(s, sep, i, cur) ==
    IF i > Len(s) THEN <<cur>>
    ELSE IF s[i] = sep THEN <<cur>> \o SplitFrom(s, sep, i + 1, <<>>)
                       ELSE SplitFrom(s, sep, i + 1, Append(cur, s[i]))

SplitOn(s, sep) == SplitFrom(s, sep, 1, <<>>)

\* path.normalize on the segments of a relative path: "" and "." vanish,
\* ".." removes the segment before it, or stays when there is none to remove
RECURSIVE NormalizeSegs(_, _)
NormalizeSegs(segs, acc) ==
    IF segs = <<>> THEN acc
    ELSE LET s == Head(segs)
         IN  IF s = <<>> \/ s = <<".">>
             THEN NormalizeSegs(Tail(segs), acc)
             ELSE IF s = DOTDOT /\ acc # <<>> /\ acc[Len(acc)] # DOTDOT
                  THEN NormalizeSegs(Tail(segs), SubSeq(acc, 1, Len(acc) - 1))
                  ELSE NormalizeSegs(Tail(segs), Append(acc, s))

\* segs.join(sep)
RECURSIVE JoinWith(_, _)
JoinWith(segs, sep) ==
    IF segs = <<>> THEN <<>>
    ELSE IF Len(segs) = 1 THEN Head(segs)
    ELSE Head(segs) \o <<sep>> \o JoinWith(Tail(segs), sep)

\* path.join("src", normalized_path), normalized_path ending in "/": the
\* normalized segments joined by path.sep, the trailing separator kept
\* ("." stands for an empty result). url.parse has already turned every
\* backslash of the request path into a slash.
PathJoinSrc(pf, normalized_path) ==
    LET segs == NormalizeSegs(<<SRC>> \o SplitOn(normalized_path, "/"), <<>>)
    IN  (IF segs = <<>> THEN <<".">> ELSE JoinWith(segs, Sep(pf))) \o <<Sep(pf)>>

ApiPathRegexWrong(s) ==
    LET ps == SplitOn(s, "\\")
        n == Len(ps)
    IN  IF n >= 4 /\ ps[n] = <<>> /\ ps[n - 1] # <<>> /\ ps[n - 2] # <<>>
        THEN [ok |-> TRUE, mpath |-> JoinWith(SubSeq(ps, 1, n - 2), "\\"),
              method |-> <<ps[n - 1]>>]
        ELSE [ok |-> FALSE, mpath |-> s, method |-> <<>>]

\* /^(src\\api(?:\\.+)*\\(?:[^\\]+))\\([^\\]+)\\$/ applied to s. In terms of
\* the pieces of s between backslashes: the first two are "src" and "api", the
\* last is empty (s ends in a backslash), the two before it are non-empty (the
\* method, and the last piece of the module path), and what lies between
\* "api" and those is empty or a backslash followed by at least one character.
ApiPathRegex(s) ==
    LET ps == SplitOn(s, "\\")
        n == Len(ps)
    IN  IF /\ n >= 5
           /\ ps[1] = SRC
           /\ ps[2] = API
           /\ ps[n] = <<>>
           /\ ps[n - 1] # <<>>
           /\ ps[n - 2] # <<>>
           /\ (n = 6 => ps[3] # <<>>)
        THEN [ok |-> TRUE, mpath |-> JoinWith(SubSeq(ps, 1, n - 2), "\\"),
              method |-> <<ps[n - 1]>>]
        ELSE [ok |-> FALSE, mpath |-> s, method |-> <<>>]

\* the segments path.relative resolves a relative path to (below the working
\* directory); win32 compares them case-insensitively
RECURSIVE LowerStr(_)
LowerStr(s) == IF s = <<>> THEN <<>> ELSE <<Lower(Head(s))>> \o LowerStr(Tail(s))

RECURSIVE LowerAll(_)
LowerAll(segs) ==
    IF segs = <<>> THEN <<>> ELSE <<LowerStr(Head(segs))>> \o LowerAll(Tail(segs))

Resolved(pf, p) ==
    LET segs == NormalizeSegs(IF pf = "win32"
                              THEN SplitOn(JoinWith(SplitOn(p, "\\"), "/"), "/")
                              ELSE SplitOn(p, "/"), <<>>)
    IN  IF pf = "win32" THEN LowerAll(segs) ELSE segs

\* !relative(join("src", "api"), modulePath): both name the same directory
\* (a path that climbs above the working directory and re-enters it by name
\* is not modelled: it never matches the regex and is answered 400 as well)
RelativeIsEmpty(pf, p) == Resolved(pf, p) = <<SRC, API>>

----------------------------------------------------------------------------
(* Middleware evaluator: core/middleware-utils.js *)

defaultDenyResponseWrong ==
    [allow |-> <<FALSE>>, code |-> <<403>>,
     message |-> <<"This action is not allowed.">>,
     contentType |-> <<"text/plain">>, others |-> {}]

\* An optional value is <<>> (undefined) or <<v>>. The field others holds the
\* keys an object has beside allow, code, message and contentType.
defaultDenyResponse ==
    [allow |-> <<FALSE>>, code |-> <<401>>,
     message |-> <<"This action is not allowed.">>,
     contentType |-> <<"text/plain">>, others |-> {}]

AllowResponseWrong ==
    [allow |-> <<TRUE>>, code |-> <<401>>,
     message |-> <<"This action is not allowed.">>,
     contentType |-> <<"text/plain">>, others |-> {}]

\* { allow: true }
AllowResponse ==
    [allow |-> <<TRUE>>, code |-> <<>>, message |-> <<>>, contentType |-> <<>>,
     others |-> {}]

NoFields ==
    [allow |-> <<>>, code |-> <<>>, message |-> <<>>, contentType |-> <<>>,
     others |-> {}]

\* A value a middleware returns or resolves to: its typeof/identity t, the
\* text of a string, and for an object the keys it has ("key in value") with
\* their values.
JsValue(t) == [t |-> t, str |-> "", has |-> {}, obj |-> NoFields]

JsString(s) == [t |-> "string", str |-> s, has |-> {}, obj |-> NoFields]

JsObject(has, obj) == [t |-> "object", str |-> "", has |-> has, obj |-> obj]

\* Values thrown or rejected with; the falsy ones fail an `if (error)` test.
Truthy(e) == e \notin {"undefined", "null", "", "0"}

\* the result pair [error, output]; threw: the evaluator itself rejected
Pair(err, out) == [threw |-> FALSE, err |-> err, out |-> out]

EvaluatorRejects == [threw |-> TRUE, err |-> <<>>, out |-> <<>>]

FormatOutputWrong(v) ==
    CASE v.t \in {"true", "undefined"} -> Pair(<<>>, <<AllowResponse>>)
      [] v.t = "false" -> Pair(<<>>, <<defaultDenyResponse>>)
      [] v.t = "string" ->
            Pair(<<>>, <<[defaultDenyResponse EXCEPT !.message = <<v.str>>]>>)
      [] v.t = "object" ->
            Pair(<<>>,
                 << [allow |-> IF "allow" \in v.has THEN v.obj.allow
                               ELSE defaultDenyResponse.allow,
                     code |-> IF "code" \in v.has THEN v.obj.code
                              ELSE defaultDenyResponse.code,
                     message |-> IF "message" \in v.has THEN v.obj.message
                                 ELSE defaultDenyResponse.message,
                     contentType |-> IF "contentType" \in v.has
                                     THEN v.obj.contentType
                                     ELSE defaultDenyResponse.contentType,
                     others |-> v.obj.others] >>)
      \* typeof null is "object": `key in null` is a TypeError outside the try
      [] v.t = "null" -> EvaluatorRejects
      [] OTHER -> Pair(<<>>, <<defaultDenyResponse>>)

\* the switch of lines 57-86 on the awaited middlewareOutput
FormatOutput(v) ==
    CASE v.t \in {"true", "undefined"} -> Pair(<<>>, <<AllowResponse>>)
      [] v.t = "false" -> Pair(<<>>, <<defaultDenyResponse>>)
      [] v.t = "string" ->
            Pair(<<>>, <<[defaultDenyResponse EXCEPT !.message = <<v.str>>]>>)
      [] v.t = "object" ->
            Pair(<<>>,
                 << [allow |-> IF "allow" \in v.has THEN v.obj.allow
                               ELSE defaultDenyResponse.allow,
                     code |-> IF "code" \in v.has THEN v.obj.code
                              ELSE defaultDenyResponse.code,
                     message |-> IF "message" \in v.has THEN v.obj.message
                                 ELSE defaultDenyResponse.message,
                     contentType |-> IF "contentType" \in v.has
                                     THEN v.obj.contentType
                                     ELSE defaultDenyResponse.contentType,
                     others |-> defaultDenyResponse.others] >>)
      \* typeof null is "object": `key in null` is a TypeError outside the try
      [] v.t = "null" -> EvaluatorRejects
      [] OTHER -> Pair(<<>>, <<defaultDenyResponse>>)

\* A function under evaluation: what calling it does (ret: "return" or "throw"
\* synchronously, a promise that will "resolve" or "reject"), with which value
\* (val) or exception (exc), and whether isMethodAsync recognises it.
Fn(detected, ret, val, exc) ==
    [detected |-> detected, ret |-> ret, val |-> val, exc |-> exc]

\* the Promise object a function returned, seen as a middleware output: an
\* object with none of the decision's keys
PromiseObject == JsObject({}, NoFields)

getFormattedMiddlewareOutputWrong(mw) ==
    IF mw.ret = "throw" THEN Pair(<<mw.exc>>, <<>>)
    ELSE IF mw.ret = "return" THEN FormatOutput(mw.val)
    ELSE IF mw.detected
    THEN (IF mw.ret = "reject" THEN Pair(<<mw.exc>>, <<>>)
          ELSE FormatOutput(mw.val))
    ELSE FormatOutput(PromiseObject)

\* getFormattedMiddlewareOutput: the try of lines 33-49 catches a synchronous
\* throw on either branch; a function recognised by isMethodAsync is awaited
\* (line 37); one that is not is called (line 39) and its output awaited
\* when it is a Promise (lines 43-45); a rejection of either await is caught
getFormattedMiddlewareOutput(mw) ==
    IF mw.ret = "throw" THEN Pair(<<mw.exc>>, <<>>)
    ELSE IF mw.detected
    THEN (IF mw.ret = "reject" THEN Pair(<<mw.exc>>, <<>>)
          ELSE FormatOutput(mw.val))
    ELSE IF mw.ret \in {"resolve", "reject"}
    THEN (IF mw.ret = "reject" THEN Pair(<<mw.exc>>, <<>>)
          ELSE FormatOutput(mw.val))
    ELSE FormatOutput(mw.val)

----------------------------------------------------------------------------
(* The ServerResponse *)

\* The body is text followed by msg (a middleware decision's message, or
\* the values interpolated for ${method} and ${req.method}), or for
\* a page the document template with its three placeholders filled.
Body(text, msg) ==
    [text |-> text, msg |-> msg, pageSlot |-> <<>>, dataScript |-> <<>>,
     mainScript |-> FALSE]

PageBodyWrong(pageSlot, dataScript, mainScript) ==
    [text |-> "index.html", msg |-> <<>>, pageSlot |-> <<pageSlot>>,
     dataScript |-> dataScript, mainScript |-> TRUE]

PageBodyNoScript(pageSlot, dataScript, mainScript) ==
    [text |-> "index.html", msg |-> <<>>, pageSlot |-> <<pageSlot>>,
     dataScript |-> dataScript, mainScript |-> FALSE]

PageBody(pageSlot, dataScript, mainScript) ==
    [text |-> "index.html", msg |-> <<>>, pageSlot |-> <<pageSlot>>,
     dataScript |-> dataScript, mainScript |-> mainScript]

\* a response nothing was written to; heads counts the writeHead calls made
NoResponse ==
    [status |-> 0, ctype |-> <<>>, body |-> Body("", <<>>), acam |-> <<>>,
     heads |-> 0, ended |-> FALSE]

\* res.writeHead(status, { "Content-Type": ctype }); res.end(body)
Respond(r, status, ctype, body) ==
    [r EXCEPT !.status = status, !.ctype = <<ctype>>, !.body = body,
              !.heads = @ + 1, !.ended = TRUE]

\* res.setHeader("Access-Control-Allow-Methods", ...)
SetAcam(r) == [r EXCEPT !.acam = <<"GET, POST, PUT, DELETE, OPTIONS">>]

----------------------------------------------------------------------------
(* Inputs of the request pipeline *)

sM == <<"m">>

sG == <<"g">>

sD == <<"d">>

sU == <<"u">>

sX == <<"x">>

s7 == <<"7">>

sCLIENT == <<"c", "l", "i", "e", "n", "t">>

sPUBLIC == <<"p", "u", "b", "l", "i", "c">>

sGLOBALCSS == <<"g", "l", "o", "b", "a", "l", ".", "c", "s", "s">>

sMODULECSS == <<"m", "o", "d", "u", "l", "e", ".", "c", "s", "s">>

\* request paths: pages, static files, API calls (well-formed, without a
\* method name, climbing out of src/api, with a prefix that merely starts
\* with "api")
RequestPaths ==
    { PathOf(<<>>, FALSE),
      PathOf(<<sU, s7>>, FALSE), PathOf(<<sU, s7>>, TRUE),
      PathOf(<<sU>>, FALSE), PathOf(<<sU, s7, s7>>, FALSE),
      PathOf(<<sCLIENT>>, FALSE), PathOf(<<sCLIENT, sX>>, FALSE),
      PathOf(<<sPUBLIC, sX>>, FALSE), PathOf(<<sPUBLIC>>, FALSE),
      PathOf(<<sGLOBALCSS>>, FALSE), PathOf(<<sMODULECSS>>, FALSE),
      PathOf(<<<<"A", "P", "I">>, sM, sG>>, FALSE),
      PathOf(<<API>>, FALSE), PathOf(<<API>>, TRUE),
      PathOf(<<API, sG>>, FALSE),
      PathOf(<<API, sM, sG>>, FALSE), PathOf(<<API, sM, sG>>, TRUE),
      PathOf(<<API, sD, sM, sG>>, FALSE),
      PathOf(<<API, DOTDOT, sM, sG>>, FALSE),
      PathOf(<<API, sM, DOTDOT, DOTDOT, DOTDOT, sM, sG>>, FALSE),
      PathOf(<<API, sD, DOTDOT, sM, sG>>, TRUE),
      PathOf(<<API \o sX, sM, sG>>, FALSE) }

\* route.config.js of the running application: "/", "/u/:x", "/:x"
AppRoutes ==
    << PathOf(<<>>, FALSE), PathOf(<<sU, <<":", "x">> >>, FALSE),
       PathOf(<< <<":", "x">> >>, FALSE) >>

\* the loader and page fields of the route definitions
RouteDefs == [loader : BOOLEAN, page : BOOLEAN]

\* values thrown or rejected with
Thrown == {"Error", "undefined", "null", ""}

\* values a middleware returns or resolves to
MiddlewareValues ==
    { JsValue("true"), JsValue("undefined"), JsValue("false"), JsString("nope"),
      JsValue("null"), JsValue("number"),
      JsObject({"allow"}, [NoFields EXCEPT !.allow = <<TRUE>>]),
      JsObject({"code"}, [NoFields EXCEPT !.code = <<403>>]),
      JsObject({"allow", "code", "message", "contentType"},
               [allow |-> <<FALSE>>, code |-> <<403>>,
                message |-> <<"forbidden">>,
                contentType |-> <<"application/json">>, others |-> {}]),
      JsObject({"code", "contentType"}, NoFields),
      JsObject({}, NoFields) }

MiddlewareFns ==
    { Fn(d, r, v, "") : d \in BOOLEAN, r \in {"return", "resolve"},
                        v \in MiddlewareValues }
    \cup { Fn(d, r, JsValue("undefined"), e) :
               d \in BOOLEAN, r \in {"throw", "reject"}, e \in Thrown }

\* response handlers: writes tells whether the handler writes its response
\* before it returns, throws or settles
HandlerFns ==
    { [detected |-> d, ret |-> r, writes |-> w] :
          d \in BOOLEAN, r \in {"return", "throw", "resolve", "reject"},
          w \in BOOLEAN }

\* An API endpoint module: whether it has a default-exported function, the
\* names it exports, and the shape of the exported endpoint objects.
NoModule ==
    [loaded |-> FALSE, default |-> FALSE, exports |-> {}, method |-> <<>>,
     middleware |-> FALSE, response |-> FALSE]

ApiModules ==
    { [loaded |-> TRUE, default |-> d, exports |-> ex, method |-> m,
       middleware |-> mw, response |-> r] :
          d \in BOOLEAN, ex \in {{sG}, {sX}},
          m \in {<<>>, <<"GET">>, <<"post">>}, mw \in BOOLEAN, r \in BOOLEAN }

\* the characters of the method names in use
MethodChars(m) ==
    CASE m = "GET" -> <<"G", "E", "T">>
      [] m = "POST" -> <<"P", "O", "S", "T">>
      [] m = "post" -> <<"p", "o", "s", "t">>
      [] OTHER -> <<>>

MethodTestWrong(declared, actual) ==
    \E i \in 1..(Len(MethodChars(actual)) - Len(MethodChars(declared)) + 1) :
        SubSeq(MethodChars(actual), i, i + Len(MethodChars(declared)) - 1)
            = MethodChars(declared)

\* new RegExp(method, "i").test(req.method): the declared name, which has no
\* regex metacharacter, occurs somewhere in the request's method, letter case
\* disregarded
MethodTest(declared, actual) ==
    LET d == LowerStr(MethodChars(declared))
        a == LowerStr(MethodChars(actual))
    IN  \E i \in 1..(Len(a) - Len(d) + 1) : SubSeq(a, i, i + Len(d) - 1) = d

NotRun == [threw |-> FALSE, err |-> <<>>, out |-> <<>>]

\* no middleware has been evaluated yet
NoMiddleware == Fn(FALSE, "none", JsValue("undefined"), "")

NoLoader == [err |-> <<>>, data |-> "not run"]

NoPage == [err |-> <<>>, html |-> <<>>]

NoLoaderFunc == [detected |-> FALSE, ret |-> "none"]

NoCottonData ==
    [shape |-> "", key |-> <<>>, params |-> EmptyParams, loader |-> "not run"]

sLOADER == <<"l", "o", "a", "d", "e", "r">>

sPAGE == <<"p", "a", "g", "e">>

----------------------------------------------------------------------------
(* API dispatcher: serveApi of core/http-serve-utils.js *)

\* What a step of serveApi does with the response: write it and return, or
\* go on to the next step.
Write(status, ctype, body) ==
    [respond |-> TRUE, status |-> status, ctype |-> ctype, body |-> body]

Continue ==
    [respond |-> FALSE, status |-> 0, ctype |-> "", body |-> Body("", <<>>)]

\* out.code ?? 401
CodeOf(out) == IF out.code = <<>> THEN 401 ELSE out.code[1]

\* out.contentType ?? "text/plain"
ContentTypeOf(out) ==
    IF out.contentType = <<>> THEN "text/plain" ELSE out.contentType[1]

\* !out.allow
Denies(out) == out.allow # <<TRUE>>

PrimaryErrorMsg ==
    "An error occured in the primary middleware at '${apiUrl}'. See server log for more info."

SecondaryErrorMsg ==
    "An error occurred in the middleware at '${apiUrl}/${methodName}'. See server logs for details."

SecondaryCatchMsg ==
    "An error occured in the middleware at '${apiUrl}/${methodName}' endpoint. See server logs for more info."

ResponseErrorMsg ==
    "An error occured in the response() at '${apiUrl}/${methodName} endpoint'. See server logs for more info."

\* lines 173-200: the module path and method name of an API request, and
\* the two rejections
ApiPath(pf, p) == ApiPathRegex(PathJoinSrc(pf, WithTrailingSlash(p)))

ApiPrologue(pf, p) ==
    LET m == ApiPath(pf, p)
    IN  IF RelativeIsEmpty(pf, m.mpath)
        THEN Write(400, "text/plain",
                   Body("Invalid api call with url '/${apiUrl}'", <<>>))
        ELSE IF m.method = <<>>
        THEN Write(400, "text/plain",
                   Body("No endpoint specified in the api url '/${apiUrl}'", <<>>))
        ELSE Continue

\* lines 213-233 (core) and 186-208 (template) with the catch of the
\* enclosing try: the outcome of the primary middleware evaluation r
PrimaryEffect(v, r) ==
    IF r.threw
    THEN Write(500, "text/plain", Body(PrimaryErrorMsg, <<>>))
    ELSE IF r.err # <<>> /\ Truthy(r.err[1])
    THEN Write(500, "text/plain", Body(PrimaryErrorMsg, <<>>))
    ELSE IF v = "core"
    THEN IF r.out # <<>> /\ Denies(r.out[1])
         THEN Write(CodeOf(r.out[1]), ContentTypeOf(r.out[1]),
                    Body("", r.out[1].message))
         ELSE Continue
    \* template: no null guard, reading .allow of null is a TypeError the
    \* catch turns into the 500; the deny body carries a prefix
    ELSE IF r.out = <<>>
         THEN Write(500, "text/plain", Body(PrimaryErrorMsg, <<>>))
         ELSE IF Denies(r.out[1])
         THEN Write(CodeOf(r.out[1]), ContentTypeOf(r.out[1]),
                    Body("PRIMARY: ", r.out[1].message))
         ELSE Continue

\* lines 269-305 (core) and 244-266 (template): the outcome of the secondary
\* middleware evaluation r
SecondaryEffect(v, r) ==
    IF r.threw
    THEN Write(500, "text/plain", Body(SecondaryCatchMsg, <<>>))
    ELSE IF v = "core"
    THEN IF r.err # <<>> /\ Truthy(r.err[1])
         THEN Write(500, "text/plain", Body(SecondaryErrorMsg, <<>>))
         ELSE IF r.out # <<>> /\ Denies(r.out[1])
         THEN Write(CodeOf(r.out[1]), ContentTypeOf(r.out[1]),
                    Body("", r.out[1].message))
         ELSE Continue
    \* template: the error element is not looked at; .allow of null is a
    \* TypeError; an undefined Content-Type makes writeHead throw; the catch
    \* answers both with the 500
    ELSE IF r.out = <<>>
         THEN Write(500, "text/plain", Body(SecondaryCatchMsg, <<>>))
         ELSE IF Denies(r.out[1])
         THEN IF r.out[1].contentType = <<>>
              THEN Write(500, "text/plain", Body(SecondaryCatchMsg, <<>>))
              ELSE Write(CodeOf(r.out[1]), r.out[1].contentType[1],
                         Body("", r.out[1].message))
         ELSE Continue

LookupEffectWrong(m, name, method) ==
    IF name \in m.exports /\ m.method # <<>> /\ ~MethodTest(m.method[1], method)
    THEN Write(404, "text/plain",
               Body("Endpoint '${methodName}' expected HTTP ${method} but received HTTP ${req.method} at '${apiUrl}'.",
                    <<m.method[1], method>>))
    ELSE Continue

\* lines 246-265: the named export and its method constraint
LookupEffect(m, name, method) ==
    IF name \notin m.exports
    THEN Write(500, "text/plain",
               Body("Endpoint '${methodName}' is not defined or exported from '${apiUrl}'.",
                    <<>>))
    ELSE IF m.method # <<>> /\ ~MethodTest(m.method[1], method)
    THEN Write(404, "text/plain",
               Body("Endpoint '${methodName}' expected HTTP ${method} but received HTTP ${req.method} at '${apiUrl}'.",
                    <<m.method[1], method>>))
    ELSE Continue

ResponseEffectWrong(m) == Continue

\* lines 308-312
ResponseEffect(m) ==
    IF ~m.response
    THEN Write(404, "text/plain",
               Body("response() is not defined in '${apiUrl}/${methodName}' endpoint.",
                    <<>>))
    ELSE Continue

\* The synchronous stretch of serveApi from step `from` up to the next await
\* or return: after the import ("primary"), after the primary middleware
\* ("lookup"), after the secondary middleware ("response"). It yields the
\* next position, the response, and whether module[methodName] was read.
RunFrom(from, m, name, method, r) ==
    LET stop(e) == [pc |-> "done", res |-> Respond(r, e.status, e.ctype, e.body)]
        atResponse ==
            IF ResponseEffect(m).respond THEN stop(ResponseEffect(m))
            ELSE [pc |-> "handler", res |-> r]
        atLookup ==
            IF LookupEffect(m, name, method).respond
            THEN stop(LookupEffect(m, name, method))
            ELSE IF m.middleware THEN [pc |-> "secondary_mw", res |-> r]
            ELSE atResponse
    IN  CASE from = "primary" ->
                IF m.default THEN [pc |-> "primary_mw", res |-> r] ELSE atLookup
          [] from = "lookup" -> atLookup
          [] OTHER -> atResponse

\* the calls made on the way into the next position
Enter(next) ==
    CASE next = "api_import" -> <<"import">>
      [] next = "primary_mw" -> <<"primary:call">>
      [] next = "secondary_mw" -> <<"secondary:call">>
      [] next = "handler" -> <<"response:call">>
      [] OTHER -> <<>>

----------------------------------------------------------------------------
(* Top-level dispatcher: handleRequest of server.js *)

SLASH == <<"/">>

IsStaticPath(p) ==
    \/ StartsWith(p, SLASH \o sPUBLIC \o SLASH)
    \/ StartsWith(p, SLASH \o sGLOBALCSS)
    \/ StartsWith(p, SLASH \o sMODULECSS)
    \/ StartsWith(p, SLASH \o sCLIENT)

IsApiPath(p) == StartsWith(p, SLASH \o API)

DispatchWrong(p) ==
    IF IsStaticPath(p) THEN "file"
    ELSE IF StartsWith(p, SLASH \o API \o SLASH) THEN "api"
    ELSE "route"

\* lines 48-69: which server function a path is handed to
Dispatch(p) ==
    IF IsStaticPath(p) THEN "file"
    ELSE IF IsApiPath(p) THEN "api"
    ELSE "route"

----------------------------------------------------------------------------
(* The request as a task: one action per resumption *)

config == << platform, variant, routes, routeDef, pathname, reqMethod >>

\* no other request is in flight
NoRequest == <<>>

\* A child process of the orchestrator: builder or server, whether it runs,
\* whether its IPC channel is connected, whether kill() was called on it, the
\* message listener ("init": lines 126-136, "reload": lines 193-207) and the
\* number of close listeners attached to it, the number of watcher events
\* that preceded the start of its build, the builder a server came from, and
\* the status a builder reported.
Proc(kind, onMessage, built, from) ==
    [kind |-> kind, alive |-> TRUE, connected |-> TRUE, killed |-> FALSE,
     onMessage |-> onMessage, onClose |-> 0, built |-> built, from |-> from,
     status |-> ""]

\* cotton.js after its module body has run: nothing declared is assigned
\* yet but the builder forked by initializeBuilderAndServer (lines 119-137)
DevStart ==
    /\ throttlerTimerId = 0
    /\ isReloadInProgress = FALSE
    /\ serverProcess = 0
    /\ builderProcess = 1
    /\ procs = << Proc("builder", "init", 0, 0) >>
    /\ timers = {}
    /\ clients = {}
    /\ notified = {}
    /\ changes = 0
    /\ bursts = 0
    /\ expiries = 0

Init ==
    /\ platform \in {"win32", "posix"}
    /\ variant \in {"core", "template"}
    /\ routes = AppRoutes
    /\ routeDef \in RouteDefs
    /\ pathname \in RequestPaths
    /\ reqMethod \in {"GET", "POST"}
    /\ pc = "start"
    /\ matched = NoMatch
    /\ served = "none"
    /\ modulePath = <<>>
    /\ methodName = <<>>
    /\ imported = <<>>
    /\ module = NoModule
    /\ lookedUp = <<>>
    /\ middlewareMethod = NoMiddleware
    /\ primary = NotRun
    /\ secondary = NotRun
    /\ loaderFunc = NoLoaderFunc
    /\ loader = NoLoader
    /\ cotton_data = NoCottonData
    /\ renderProps = <<>>
    /\ page = NoPage
    /\ res = NoResponse
    /\ log = <<>>
    /\ unhandled = FALSE
    /\ extended = FALSE
    /\ parked = NoRequest
    /\ DevStart

\* handleRequest up to the first await of the function it hands the request
\* to: serveFile up to readFile, serveApi lines 170-210 up to the import,
\* servePage up to the await of getLoaderData, or the 404.
HandleRequest ==
    /\ pc = "start"
    /\ served' = (IF Dispatch(pathname) = "route"
                  THEN (IF getMatchingRoute(routes, pathname).found
                        THEN "page" ELSE "notfound")
                  ELSE Dispatch(pathname))
    /\ matched' = (IF Dispatch(pathname) = "route"
                   THEN getMatchingRoute(routes, pathname) ELSE matched)
    /\ modulePath' = (IF served' = "api" THEN ApiPath(platform, pathname).mpath
                      ELSE modulePath)
    /\ methodName' = (IF served' = "api" THEN ApiPath(platform, pathname).method
                      ELSE methodName)
    /\ CASE served' = "file" -> pc' = "file_read" /\ res' = res
         [] served' = "page" -> pc' = "page_loader" /\ res' = res
         [] served' = "notfound" ->
                /\ pc' = "done"
                /\ res' = Respond(res, 404, "text/plain", Body("404 Not Found", <<>>))
         [] OTHER ->
                LET e == ApiPrologue(platform, pathname)
                IN  IF e.respond
                    THEN /\ pc' = "done"
                         /\ res' = Respond(res, e.status, e.ctype, e.body)
                    ELSE /\ pc' = "api_import"
                         /\ res' = SetAcam(res)
    /\ log' = log \o <<served'>> \o Enter(pc')
    \* server.js line 64: Object.assign(IncomingMessage.prototype, ...)
    /\ extended' = (extended \/ served' = "api")
    /\ UNCHANGED << config, parked, orchestrator, loaderFunc, cotton_data, renderProps,
                    middlewareMethod,
                    imported, module, lookedUp, primary, secondary,
                    loader, page, unhandled >>

\* serveFile lines 42-53: what the readFile callback writes
FileResponse(error, r) ==
    IF error
    THEN Respond(r, 500, "text/plain",
                 Body("500 Internal Server Error. ${error}", <<>>))
    ELSE Respond(r, 200, "mimeTypes[extension] || text/plain",
                 Body("file content", <<>>))

\* the readFile callback of serveFile
FileRead ==
    /\ pc = "file_read"
    /\ \E error \in BOOLEAN :
          /\ res' = FileResponse(error, res)
          /\ log' = log \o <<"readFile", IF error THEN "readFile:error"
                                                  ELSE "readFile:content">>
    /\ pc' = "done"
    /\ UNCHANGED << config, extended, parked, orchestrator, loaderFunc, cotton_data, renderProps,
                    middlewareMethod,
                    matched, served, modulePath, methodName, imported,
                    module, lookedUp, primary, secondary, loader, page,
                    unhandled >>

\* serveApi resumes from `await import(...)`: the import failed (the catch
\* of line 235 answers 500) or gave a module, and the function runs on to
\* its next await or return
ApiImport ==
    /\ pc = "api_import"
    /\ imported' = Append(imported, modulePath)
    /\ \E m \in ApiModules \cup {NoModule} :
          /\ module' = m
          /\ IF ~m.loaded
             THEN /\ pc' = "done"
                  /\ res' = Respond(res, 500, "text/plain",
                                    Body(PrimaryErrorMsg, <<>>))
                  /\ lookedUp' = lookedUp
             ELSE LET n == RunFrom("primary", m, methodName[1], reqMethod, res)
                  IN  /\ pc' = n.pc
                      /\ res' = n.res
                      /\ lookedUp' = IF m.default THEN lookedUp
                                     ELSE Append(lookedUp, methodName[1])
    /\ log' = log \o <<"import:settled">> \o Enter(pc')
    /\ UNCHANGED << config, extended, parked, orchestrator, loaderFunc, cotton_data, renderProps,
                    middlewareMethod,
                    matched, served, modulePath, methodName, primary,
                    secondary, loader, page, unhandled >>

\* serveApi resumes from the await of the primary middleware evaluation
PrimaryMw ==
    /\ pc = "primary_mw"
    /\ \E mw \in MiddlewareFns :
          LET r == getFormattedMiddlewareOutput(mw)
              e == PrimaryEffect(variant, r)
              n == RunFrom("lookup", module, methodName[1], reqMethod, res)
          IN  /\ middlewareMethod' = mw
              /\ primary' = r
              /\ IF e.respond
                 THEN /\ pc' = "done"
                      /\ res' = Respond(res, e.status, e.ctype, e.body)
                      /\ lookedUp' = lookedUp
                 ELSE /\ pc' = n.pc
                      /\ res' = n.res
                      /\ lookedUp' = Append(lookedUp, methodName[1])
    /\ log' = log \o <<"primary:settled">> \o Enter(pc')
    /\ UNCHANGED << config, extended, parked, orchestrator, loaderFunc, cotton_data, renderProps,
                    matched, served, modulePath, methodName, imported,
                    module, secondary, loader, page, unhandled >>

\* serveApi resumes from the await of the secondary middleware evaluation
SecondaryMw ==
    /\ pc = "secondary_mw"
    /\ \E mw \in MiddlewareFns :
          LET r == getFormattedMiddlewareOutput(mw)
              e == SecondaryEffect(variant, r)
              n == RunFrom("response", module, methodName[1], reqMethod, res)
          IN  /\ middlewareMethod' = mw
              /\ secondary' = r
              /\ IF e.respond
                 THEN /\ pc' = "done"
                      /\ res' = Respond(res, e.status, e.ctype, e.body)
                 ELSE /\ pc' = n.pc
                      /\ res' = n.res
    /\ log' = log \o <<"secondary:settled">> \o Enter(pc')
    /\ UNCHANGED << config, extended, parked, orchestrator, loaderFunc, cotton_data, renderProps,
                    matched, served, modulePath, methodName, imported,
                    module, lookedUp, primary, loader, page, unhandled >>

HandlerEffectWrong(h, r) ==
    LET wrote == IF h.writes
                 THEN Respond(r, 200, "application/json",
                              Body("response() output", <<>>))
                 ELSE r
        caught == h.ret = "throw" \/ (h.ret = "reject" /\ h.detected)
    IN  IF caught
        THEN [res |-> Respond(wrote, 500, "text/plain", Body(ResponseErrorMsg, <<>>)),
              unhandled |-> FALSE]
        ELSE [res |-> wrote, unhandled |-> h.ret = "reject"]

\* lines 314-328: what running the response handler h leaves of the
\* response r. A failure is caught when the handler throws synchronously, or
\* rejects and is awaited; the catch's writeHead itself throws when the
\* handler has already written. A rejection of a handler that is not
\* awaited is handled by nobody.
HandlerEffect(h, r) ==
    LET wrote == IF h.writes
                 THEN Respond(r, 200, "application/json",
                              Body("response() output", <<>>))
                 ELSE r
        caught == h.ret = "throw" \/ (h.ret = "reject" /\ h.detected)
    IN  IF caught
        THEN IF h.writes
             THEN [res |-> wrote, unhandled |-> TRUE]
             ELSE [res |-> Respond(wrote, 500, "text/plain",
                                   Body(ResponseErrorMsg, <<>>)),
                   unhandled |-> FALSE]
        ELSE [res |-> wrote, unhandled |-> h.ret = "reject"]

\* the calls and writes the handler h leaves in the history
HandlerTrace(h) ==
    (IF h.detected THEN <<"response:awaited">> ELSE <<>>)
    \o (IF h.writes THEN <<"response:write">> ELSE <<>>)
    \o <<"response:" \o h.ret, "response:settled">>

\* serveApi lines 314-328: the response handler runs
Handler ==
    /\ pc = "handler"
    /\ \E h \in HandlerFns :
          /\ res' = HandlerEffect(h, res).res
          /\ unhandled' = HandlerEffect(h, res).unhandled
          /\ log' = log \o HandlerTrace(h)
    /\ pc' = "done"
    /\ UNCHANGED << config, extended, parked, orchestrator, loaderFunc, cotton_data, renderProps,
                    middlewareMethod,
                    matched, served, modulePath, methodName, imported,
                    module, lookedUp, primary, secondary, loader, page >>

----------------------------------------------------------------------------
(* Page pipeline: servePage, getLoaderData, getPageHtmlWithData *)

LoaderImportMsg ==
    "Either '${loader}' not found or an exception occurred in the loader method for route '${route}'."

LoaderErrorMsg ==
    "Exception in loader method in '${loader}' while processing route '${route}'."

\* a diagnostic: its text and the route key interpolated for ${route}
Diag(text, route) == [text |-> text, route |-> <<route>>]

\* a text that interpolates no route
Plain(text) == [text |-> text, route |-> <<>>]

LoaderResultWrong(route, hasLoader, importOk, f) ==
    IF ~hasLoader THEN [err |-> <<>>, data |-> "null"]
    ELSE IF ~importOk THEN [err |-> <<>>, data |-> "undefined"]
    ELSE IF f.ret \in {"return", "resolve"} THEN [err |-> <<>>, data |-> "value"]
    ELSE [err |-> <<Plain(LoaderErrorMsg)>>, data |-> "value"]

LoaderResultThrowWrong(route, hasLoader, importOk, f) ==
    IF ~hasLoader THEN [err |-> <<>>, data |-> "undefined"]
    ELSE IF ~importOk THEN [err |-> <<Diag(LoaderImportMsg, route)>>, data |-> "null"]
    ELSE IF f.ret \in {"return", "resolve"} THEN [err |-> <<>>, data |-> "value"]
    ELSE [err |-> <<Diag(LoaderErrorMsg, route)>>, data |-> "null"]

\* getLoaderData (core/module-utils.js lines 46-86) for the loader function
\* f, or for a failed import. The data is the value the loader gives, or the
\* promise itself when the loader is not recognised as asynchronous.
LoaderResult(route, hasLoader, importOk, f) ==
    IF ~hasLoader THEN [err |-> <<>>, data |-> "undefined"]
    ELSE IF ~importOk THEN [err |-> <<Diag(LoaderImportMsg, route)>>, data |-> "null"]
    ELSE IF f.detected
    THEN IF f.ret \in {"return", "resolve"}
         THEN [err |-> <<>>, data |-> "value"]
         ELSE [err |-> <<Diag(LoaderErrorMsg, route)>>, data |-> "null"]
    ELSE CASE f.ret = "return" -> [err |-> <<>>, data |-> "value"]
           [] f.ret = "throw" -> [err |-> <<Diag(LoaderImportMsg, route)>>, data |-> "null"]
           [] OTHER -> [err |-> <<>>, data |-> "promise"]

LoaderFns == [detected : BOOLEAN, ret : {"return", "throw", "resolve", "reject"}]

CottonDataWrong(v, route, params, data) ==
    [shape |-> IF v = "core" THEN "route.key" ELSE "cotton.route",
     key |-> route, params |-> EmptyParams, loader |-> data]

\* servePage lines 72-80 (template copy: lines 71-78, which names the fields
\* cotton.route and cotton.route_params)
CottonData(v, route, params, data) ==
    [shape |-> IF v = "core" THEN "route.key" ELSE "cotton.route",
     key |-> route, params |-> params, loader |-> data]

\* servePage resumes from `await getLoaderData(route)`, builds the Cotton Data
\* and calls getPageHtmlWithData
LoaderSettled ==
    /\ pc = "page_loader"
    /\ \E importOk \in BOOLEAN, f \in LoaderFns :
          /\ loaderFunc' = IF routeDef.loader /\ importOk THEN f ELSE NoLoaderFunc
          /\ loader' = LoaderResult(matched.route, routeDef.loader, importOk, f)
          /\ cotton_data' = CottonData(variant, matched.route, matched.params,
                                       loader'.data)
          /\ unhandled' = (routeDef.loader /\ importOk /\ ~f.detected
                           /\ f.ret = "reject")
          /\ log' = log \o (IF routeDef.loader
                            THEN <<"loader:import">>
                                 \o (IF importOk THEN <<"loader:call">> ELSE <<>>)
                            ELSE <<>>)
                        \o <<"loader:settled", "page:call">>
    /\ imported' = IF routeDef.loader THEN Append(imported, sLOADER) ELSE imported
    /\ pc' = "page_render"
    /\ UNCHANGED << config, extended, parked, orchestrator, middlewareMethod, renderProps, matched, served,
                    modulePath, methodName, module, lookedUp, primary,
                    secondary, page, res >>

\* what happens in getPageHtmlWithData once the route has a page
PageOutcomes == {"import_failed", "no_default", "render_threw", "rendered"}

PageResultWrong(route, hasPage, outcome, html) ==
    IF ~hasPage THEN [err |-> <<>>, html |-> <<>>]
    ELSE IF outcome # "rendered"
    THEN [err |-> <<Diag("Either default export is missing or page '${page}' not found while processing route '${route}'",
                         route)>>,
          html |-> <<html>>]
    ELSE [err |-> <<>>, html |-> <<html>>]

\* getPageHtmlWithData (core/module-utils.js lines 97-120)
PageResult(route, hasPage, outcome, html) ==
    IF ~hasPage
    THEN [err |-> <<Diag("Page not specified in route '${route}'", route)>>,
          html |-> <<>>]
    ELSE IF outcome # "rendered"
    THEN [err |-> <<Diag("Either default export is missing or page '${page}' not found while processing route '${route}'",
                         route)>>,
          html |-> <<>>]
    ELSE [err |-> <<>>, html |-> <<html>>]

\* servePage resumes from `await getPageHtmlWithData(...)` and calls readFile
PageSettled ==
    /\ pc = "page_render"
    /\ \E outcome \in PageOutcomes, html \in {"<html>", ""} :
          /\ page' = PageResult(matched.route, routeDef.page, outcome, html)
          /\ renderProps' = IF routeDef.page /\ outcome # "import_failed"
                            THEN <<cotton_data>> ELSE <<>>
          /\ log' = log \o (IF routeDef.page
                            THEN <<"page:import">>
                                 \o (IF outcome # "import_failed"
                                     THEN <<"page:render">> ELSE <<>>)
                                 \o <<"page:" \o outcome>>
                            ELSE <<>>)
                        \o <<"page:settled">>
    /\ imported' = IF routeDef.page THEN Append(imported, sPAGE) ELSE imported
    /\ pc' = "page_read"
    /\ UNCHANGED << config, extended, parked, orchestrator, middlewareMethod, loaderFunc, cotton_data, matched,
                    served, modulePath, methodName, module, lookedUp, primary,
                    secondary, loader, res, unhandled >>

\* page_error || loader_error || page_html || ""
PageSlot(l, p) ==
    IF p.err # <<>> THEN p.err[1]
    ELSE IF l.err # <<>> THEN l.err[1]
    ELSE IF p.html # <<>> THEN Plain(p.html[1])
    ELSE Plain("")

\* JSON.stringify(cotton_data): a loader that is undefined is left out, a
\* promise becomes {}
Stringify(cd) ==
    [cd EXCEPT !.loader = CASE @ = "undefined" -> "absent"
                            [] @ = "promise" -> "{}"
                            [] OTHER -> @]

\* servePage lines 125-157: what the readFile callback writes for the loader
\* result l, the page result p and the Cotton Data cd
TemplateResponse(err, l, p, cd, r) ==
    IF err
    THEN Respond(r, 500, "text/plain",
                 Body("500 Internal Server Error: Could not find entry point index.html",
                      <<>>))
    ELSE Respond(r, 200, "text/html",
                 PageBody(PageSlot(l, p), <<Stringify(cd)>>,
                          p.err = <<>> /\ l.err = <<>>))

\* the readFile callback of servePage (lines 125-157)
TemplateRead ==
    /\ pc = "page_read"
    /\ \E err \in BOOLEAN :
          /\ res' = TemplateResponse(err, loader, page, cotton_data, res)
          /\ log' = log \o <<"readFile", IF err THEN "readFile:error"
                                                ELSE "readFile:content">>
    /\ pc' = "done"
    /\ UNCHANGED << config, extended, parked, orchestrator, middlewareMethod, loaderFunc, cotton_data,
                    renderProps, matched, served, modulePath, methodName,
                    imported, module, lookedUp, primary, secondary, loader,
                    page, unhandled >>

Next ==
    \/ HandleRequest
    \/ FileRead
    \/ ApiImport
    \/ PrimaryMw
    \/ SecondaryMw
    \/ Handler
    \/ LoaderSettled
    \/ PageSettled
    \/ TemplateRead

Spec == Init /\ [][Next]_vars

----------------------------------------------------------------------------
(* Development orchestrator: cotton.js and the builder it forks *)

\* number of watcher events considered
MaxChanges == 3

DevClients == {"c1", "c2"}

\* the configuration of the running server and the finished request are of
\* no concern to the orchestrator
InitDev ==
    /\ platform = "posix"
    /\ variant = "core"
    /\ routes = AppRoutes
    /\ routeDef = [loader |-> FALSE, page |-> FALSE]
    /\ pathname = PathOf(<<>>, FALSE)
    /\ reqMethod = "GET"
    /\ pc = "none"
    /\ matched = NoMatch
    /\ served = "none"
    /\ modulePath = <<>>
    /\ methodName = <<>>
    /\ imported = <<>>
    /\ module = NoModule
    /\ lookedUp = <<>>
    /\ middlewareMethod = NoMiddleware
    /\ primary = NotRun
    /\ secondary = NotRun
    /\ loaderFunc = NoLoaderFunc
    /\ loader = NoLoader
    /\ cotton_data = NoCottonData
    /\ renderProps = <<>>
    /\ page = NoPage
    /\ res = NoResponse
    /\ log = <<>>
    /\ unhandled = FALSE
    /\ extended = FALSE
    /\ parked = NoRequest
    /\ DevStart

server == << platform, variant, routes, routeDef, request, extended, parked >>

ClearTimeoutWrong(ts, id) == ts

\* lines 165-167: if (throttlerTimerId) clearTimeout(throttlerTimerId)
ClearTimeout(ts, id) == IF id # 0 THEN ts \ {id} ELSE ts

\* watcher.on("all") (lines 221-223) calls reloadAndNotifyClients, which
\* clears the timer it set last and sets a new one (lines 165-170, 185)
FileChange ==
    /\ changes < MaxChanges
    /\ changes' = changes + 1
    /\ bursts' = IF timers = {} THEN bursts + 1 ELSE bursts
    /\ timers' = ClearTimeout(timers, throttlerTimerId) \cup {changes + 1}
    /\ throttlerTimerId' = changes + 1
    /\ UNCHANGED << server, isReloadInProgress, serverProcess, builderProcess,
                    procs, clients, notified, expiries >>

\* buildAndStartServer line 192: the builder forked for a reload
ReloadBuilder == Proc("builder", "reload", changes, 0)

MayStartReloadWrong(sp, bp, inProgress) == sp # 0 /\ bp # 0

\* lines 171-173: if (serverProcess && builderProcess) { if
\* (isReloadInProgress) return; ...
MayStartReload(sp, bp, inProgress) == sp # 0 /\ bp # 0 /\ ~inProgress

\* the timer callback of lines 170-185
TimerExpires(id) ==
    /\ id \in timers
    /\ timers' = timers \ {id}
    /\ expiries' = expiries + 1
    /\ IF MayStartReload(serverProcess, builderProcess, isReloadInProgress)
       THEN /\ isReloadInProgress' = TRUE
            /\ IF procs[serverProcess].connected
               \* serverProcess.kill(); serverProcess.on("close", ...)
               THEN /\ procs' = [procs EXCEPT ![serverProcess].killed = TRUE,
                                              ![serverProcess].onClose = @ + 1]
                    /\ builderProcess' = builderProcess
               ELSE /\ procs' = Append(procs, ReloadBuilder)
                    /\ builderProcess' = Len(procs) + 1
       ELSE UNCHANGED << isReloadInProgress, procs, builderProcess >>
    /\ UNCHANGED << server, throttlerTimerId, serverProcess, clients, notified,
                    changes, bursts >>

\* the builders forked by the n close listeners of a server
Builders(n) == [i \in 1..n |-> ReloadBuilder]

\* the server process kill() was called on ends: its close listeners run
\* buildAndStartServer (lines 178-180, 192)
ServerClose(p) ==
    /\ p \in 1..Len(procs)
    /\ procs[p].kind = "server"
    /\ procs[p].alive
    /\ procs[p].killed
    /\ procs' = [procs EXCEPT ![p].alive = FALSE, ![p].connected = FALSE]
                \o Builders(procs[p].onClose)
    /\ builderProcess' = IF procs[p].onClose > 0 THEN Len(procs')
                         ELSE builderProcess
    /\ UNCHANGED << server, throttlerTimerId, isReloadInProgress,
                    serverProcess, timers, clients, notified, changes, bursts,
                    expiries >>

\* the running server process ends by itself: nothing listens
ServerCrash(p) ==
    /\ p \in 1..Len(procs)
    /\ procs[p].kind = "server"
    /\ procs[p].alive
    /\ ~procs[p].killed
    /\ procs' = [procs EXCEPT ![p].alive = FALSE, ![p].connected = FALSE]
    /\ UNCHANGED << server, throttlerTimerId, isReloadInProgress,
                    serverProcess, builderProcess, timers, clients, notified,
                    changes, bursts, expiries >>

\* the builder b has run its tasks and sent { status: "done" } (build.js
\* lines 59-66); the listener of lines 131-135 spawns the server, that of
\* lines 198-206 forks it, ends the reload and notifies the clients
BuilderDone(b) ==
    /\ b \in 1..Len(procs)
    /\ procs[b].kind = "builder"
    /\ procs[b].alive
    /\ procs' = Append([procs EXCEPT ![b].alive = FALSE,
                                     ![b].connected = FALSE,
                                     ![b].status = "done"],
                       Proc("server", "", procs[b].built, b))
    /\ serverProcess' = Len(procs) + 1
    /\ IF procs[b].onMessage = "reload"
       THEN /\ isReloadInProgress' = FALSE
            /\ notified' = clients
       ELSE UNCHANGED << isReloadInProgress, notified >>
    /\ UNCHANGED << server, throttlerTimerId, builderProcess, timers, clients,
                    changes, bursts, expiries >>

\* a task of the builder b failed and it sent { status: "error" } (build.js
\* lines 67-73): neither listener does anything
BuilderError(b) ==
    /\ b \in 1..Len(procs)
    /\ procs[b].kind = "builder"
    /\ procs[b].alive
    /\ procs' = [procs EXCEPT ![b].alive = FALSE, ![b].connected = FALSE,
                              ![b].status = "error"]
    /\ UNCHANGED << server, throttlerTimerId, isReloadInProgress,
                    serverProcess, builderProcess, timers, clients, notified,
                    changes, bursts, expiries >>

\* the connection listener of lines 92-113: the socket joins
\* webSocketServer.clients
ClientConnects(c) ==
    /\ c \in DevClients \ clients
    /\ clients' = clients \cup {c}
    /\ UNCHANGED << server, throttlerTimerId, isReloadInProgress,
                    serverProcess, builderProcess, procs, timers, notified,
                    changes, bursts, expiries >>

\* a browser goes away: the socket leaves webSocketServer.clients
ClientCloses(c) ==
    /\ c \in clients
    /\ clients' = clients \ {c}
    /\ UNCHANGED << server, throttlerTimerId, isReloadInProgress,
                    serverProcess, builderProcess, procs, timers, notified,
                    changes, bursts, expiries >>

NextDev ==
    \/ FileChange
    \/ \E id \in timers : TimerExpires(id)
    \/ \E p \in 1..Len(procs) : ServerClose(p)
    \/ \E p \in 1..Len(procs) : ServerCrash(p)
    \/ \E b \in 1..Len(procs) : BuilderDone(b)
    \/ \E b \in 1..Len(procs) : BuilderError(b)
    \/ \E c \in DevClients : ClientConnects(c)
    \/ \E c \in DevClients : ClientCloses(c)

SpecDev == InitDev /\ [][NextDev]_vars

\* Timers expire, a killed server process ends and a builder ends its build
\* with one of the two messages; file changes, crashes and browsers come
\* and go as they please.
SpecDevLive ==
    /\ InitDev
    /\ [][NextDev]_vars
    /\ WF_vars(\E id \in timers : TimerExpires(id))
    /\ WF_vars(\E p \in 1..Len(procs) : ServerClose(p))
    /\ WF_vars(\E b \in 1..Len(procs) : BuilderDone(b) \/ BuilderError(b))

----------------------------------------------------------------------------
(* Two requests in flight: the tasks of handleRequest interleave at their
   awaits on the one thread of the server *)

\* the task of the request that is running: the locals of handleRequest and
\* of the function it handed the request to, with the request's response
Task ==
    [pathname |-> pathname,
     reqMethod |-> reqMethod,
     pc |-> pc,
     matched |-> matched,
     served |-> served,
     modulePath |-> modulePath,
     methodName |-> methodName,
     imported |-> imported,
     module |-> module,
     lookedUp |-> lookedUp,
     middlewareMethod |-> middlewareMethod,
     primary |-> primary,
     secondary |-> secondary,
     loaderFunc |-> loaderFunc,
     loader |-> loader,
     cotton_data |-> cotton_data,
     renderProps |-> renderProps,
     page |-> page,
     res |-> res,
     log |-> log,
     unhandled |-> unhandled]

\* the task of a request that has just arrived
NewTask(p, m) ==
    [pathname |-> p, reqMethod |-> m, pc |-> "start", matched |-> NoMatch,
     served |-> "none", modulePath |-> <<>>, methodName |-> <<>>,
     imported |-> <<>>, module |-> NoModule, lookedUp |-> <<>>,
     middlewareMethod |-> NoMiddleware, primary |-> NotRun,
     secondary |-> NotRun, loaderFunc |-> NoLoaderFunc, loader |-> NoLoader,
     cotton_data |-> NoCottonData, renderProps |-> <<>>, page |-> NoPage,
     res |-> NoResponse, log |-> <<>>, unhandled |-> FALSE]

\* the requests considered: a page, two API endpoints, a file, no route
PairPaths ==
    { PathOf(<<sU, s7>>, FALSE), PathOf(<<API, sM, sG>>, FALSE),
      PathOf(<<API, sM, sX>>, FALSE), PathOf(<<sPUBLIC, sX>>, FALSE),
      PathOf(<<sU, s7, s7>>, FALSE) }

\* the endpoint modules, middlewares and loaders considered
PairModules ==
    { NoModule,
      [loaded |-> TRUE, default |-> TRUE, exports |-> {sG}, method |-> <<>>,
       middleware |-> TRUE, response |-> TRUE],
      [loaded |-> TRUE, default |-> FALSE, exports |-> {sX},
       method |-> <<"post">>, middleware |-> FALSE, response |-> TRUE] }

PairMiddlewares ==
    { NoMiddleware, Fn(FALSE, "return", JsValue("true"), ""),
      Fn(TRUE, "resolve", JsValue("false"), ""),
      Fn(FALSE, "throw", JsValue("undefined"), "Error") }

PairLoaders ==
    { NoLoaderFunc, [detected |-> TRUE, ret |-> "resolve"],
      [detected |-> TRUE, ret |-> "reject"] }

\* the environment of a task stays within the modules considered
PairEnv ==
    /\ module \in PairModules
    /\ middlewareMethod \in PairMiddlewares
    /\ loaderFunc \in PairLoaders
    /\ \A i \in 1..Len(log) :
          log[i] \notin {"response:throw", "response:resolve", "page:no_default"}

InitPair ==
    /\ platform = "win32"
    /\ variant \in {"core", "template"}
    /\ routes = AppRoutes
    /\ routeDef = [loader |-> TRUE, page |-> TRUE]
    /\ pathname \in PairPaths
    /\ reqMethod = "GET"
    /\ pc = "start"
    /\ matched = NoMatch
    /\ served = "none"
    /\ modulePath = <<>>
    /\ methodName = <<>>
    /\ imported = <<>>
    /\ module = NoModule
    /\ lookedUp = <<>>
    /\ middlewareMethod = NoMiddleware
    /\ primary = NotRun
    /\ secondary = NotRun
    /\ loaderFunc = NoLoaderFunc
    /\ loader = NoLoader
    /\ cotton_data = NoCottonData
    /\ renderProps = <<>>
    /\ page = NoPage
    /\ res = NoResponse
    /\ log = <<>>
    /\ unhandled = FALSE
    /\ extended = FALSE
    /\ parked \in { NewTask(p, "GET") : p \in PairPaths }
    /\ DevStart

SwitchTaskWrong ==
    /\ parked # NoRequest
    /\ parked.pc # "done"
    /\ pc # "start"
    /\ (log = <<>> \/ log[Len(log)] # "resumed")
    /\ parked' = Task
    /\ pathname' = parked.pathname
    /\ reqMethod' = parked.reqMethod
    /\ pc' = parked.pc
    /\ matched' = matched
    /\ served' = parked.served
    /\ modulePath' = parked.modulePath
    /\ methodName' = parked.methodName
    /\ imported' = parked.imported
    /\ module' = module
    /\ lookedUp' = parked.lookedUp
    /\ middlewareMethod' = parked.middlewareMethod
    /\ primary' = parked.primary
    /\ secondary' = parked.secondary
    /\ loaderFunc' = parked.loaderFunc
    /\ loader' = parked.loader
    /\ cotton_data' = parked.cotton_data
    /\ renderProps' = parked.renderProps
    /\ page' = parked.page
    /\ res' = parked.res
    /\ log' = Append(parked.log, "resumed")
    /\ unhandled' = parked.unhandled
    /\ UNCHANGED << platform, variant, routes, routeDef, extended,
                    orchestrator >>

\* The running task is suspended at its await and the other task, whose
\* await has settled, runs on: each keeps its own locals and response.
SwitchTask ==
    /\ parked # NoRequest
    /\ parked.pc # "done"
    /\ pc # "start"
    /\ (log = <<>> \/ log[Len(log)] # "resumed")
    /\ parked' = Task
    /\ pathname' = parked.pathname
    /\ reqMethod' = parked.reqMethod
    /\ pc' = parked.pc
    /\ matched' = parked.matched
    /\ served' = parked.served
    /\ modulePath' = parked.modulePath
    /\ methodName' = parked.methodName
    /\ imported' = parked.imported
    /\ module' = parked.module
    /\ lookedUp' = parked.lookedUp
    /\ middlewareMethod' = parked.middlewareMethod
    /\ primary' = parked.primary
    /\ secondary' = parked.secondary
    /\ loaderFunc' = parked.loaderFunc
    /\ loader' = parked.loader
    /\ cotton_data' = parked.cotton_data
    /\ renderProps' = parked.renderProps
    /\ page' = parked.page
    /\ res' = parked.res
    /\ log' = Append(parked.log, "resumed")
    /\ unhandled' = parked.unhandled
    /\ UNCHANGED << platform, variant, routes, routeDef, extended,
                    orchestrator >>

\* a step of the running task
RunTask == Next /\ PairEnv'

NextPair ==
    \/ RunTask
    \/ SwitchTask

SpecPair == InitPair /\ [][NextPair]_vars

----------------------------------------------------------------------------
(* The route matcher on its own: every table and path within the bounds *)

sA == <<"a">>

sB == <<"B">>

pX == <<":", "x">>

pY == <<":", "y">>

\* route keys: static and parameterised segments, with and without a
\* trailing slash, overlapping each other, one repeating a parameter name
RouteKeys ==
    { PathOf(<<>>, FALSE),
      PathOf(<<sA>>, FALSE), PathOf(<<sA>>, TRUE), PathOf(<<sB>>, FALSE),
      PathOf(<<pX>>, FALSE), PathOf(<<pX>>, TRUE),
      PathOf(<<sA, pX>>, FALSE), PathOf(<<sA, sB>>, TRUE),
      PathOf(<<pX, pY>>, FALSE), PathOf(<<pX, sB>>, FALSE),
      PathOf(<<pX, pX>>, FALSE) }

\* tables of at most MaxRoutes distinct keys, in every declaration order
RouteTables ==
    { t \in UNION { [1..n -> RouteKeys] : n \in 0..MaxRoutes } :
          \A i, j \in 1..Len(t) : i # j => t[i] # t[j] }

PathSegs == { <<"a">>, <<"A">>, <<"b">>, <<"7">>, <<>> }

RoutePaths ==
    { PathOf(segs, tr) :
          segs \in UNION { [1..n -> PathSegs] : n \in 0..MaxPathSegs },
          tr \in BOOLEAN }

InitRoute ==
    /\ platform = "posix"
    /\ variant = "core"
    /\ routes \in RouteTables
    /\ routeDef = [loader |-> FALSE, page |-> FALSE]
    /\ pathname \in RoutePaths
    /\ reqMethod = "GET"
    /\ pc = "route"
    /\ matched = NoMatch
    /\ served = "none"
    /\ modulePath = <<>>
    /\ methodName = <<>>
    /\ imported = <<>>
    /\ module = NoModule
    /\ lookedUp = <<>>
    /\ middlewareMethod = NoMiddleware
    /\ primary = NotRun
    /\ secondary = NotRun
    /\ loaderFunc = NoLoaderFunc
    /\ loader = NoLoader
    /\ cotton_data = NoCottonData
    /\ renderProps = <<>>
    /\ page = NoPage
    /\ res = NoResponse
    /\ log = <<>>
    /\ unhandled = FALSE
    /\ extended = FALSE
    /\ parked = NoRequest
    /\ DevStart

\* const { route, params } = getMatchingRoute(pathname)
MatchRoute ==
    /\ pc = "route"
    /\ matched' = getMatchingRoute(routes, pathname)
    /\ pc' = "matched"
    /\ UNCHANGED << config, extended, parked, orchestrator, loaderFunc, cotton_data, renderProps,
                    middlewareMethod,
                    served, modulePath, methodName, imported, module,
                    lookedUp, primary, secondary, loader, page, res, log,
                    unhandled >>

NextRoute == MatchRoute

SpecRoute == InitRoute /\ [][NextRoute]_vars

----------------------------------------------------------------------------
(* The middleware evaluator on its own: every function and returned value *)

MwKeys == {"allow", "code", "message", "contentType"}

\* objects with every subset of the four keys and of a key beside them, a
\* key being present with a value or with undefined
MiddlewareObjects ==
    { JsObject(h, [allow |-> IF "allow" \in h THEN a ELSE <<>>,
                   code |-> IF "code" \in h THEN c ELSE <<>>,
                   message |-> IF "message" \in h THEN <<"forbidden">> ELSE <<>>,
                   contentType |-> IF "contentType" \in h THEN ct ELSE <<>>,
                   others |-> h \ MwKeys]) :
          h \in SUBSET (MwKeys \cup {"role"}),
          a \in {<<TRUE>>, <<FALSE>>, <<>>},
          c \in {<<403>>, <<>>},
          ct \in {<<"application/json">>, <<>>} }

AllMiddlewareValues ==
    { JsValue(ty) : ty \in {"true", "undefined", "false", "null", "number",
                            "function", "bigint"} }
    \cup { JsString("nope"), JsString("") }
    \cup MiddlewareObjects

AllMiddlewareFns ==
    { Fn(d, r, v, "") : d \in BOOLEAN, r \in {"return", "resolve"},
                        v \in AllMiddlewareValues }
    \cup { Fn(d, r, JsValue("undefined"), e) :
               d \in BOOLEAN, r \in {"throw", "reject"}, e \in Thrown }

InitMw ==
    /\ platform = "posix"
    /\ variant = "core"
    /\ routes = AppRoutes
    /\ routeDef = [loader |-> FALSE, page |-> FALSE]
    /\ pathname = PathOf(<<API, sM, sG>>, FALSE)
    /\ reqMethod = "GET"
    /\ pc = "mw"
    /\ matched = NoMatch
    /\ served = "none"
    /\ modulePath = <<>>
    /\ methodName = <<>>
    /\ imported = <<>>
    /\ module = NoModule
    /\ lookedUp = <<>>
    /\ middlewareMethod \in AllMiddlewareFns
    /\ primary = NotRun
    /\ secondary = NotRun
    /\ loaderFunc = NoLoaderFunc
    /\ loader = NoLoader
    /\ cotton_data = NoCottonData
    /\ renderProps = <<>>
    /\ page = NoPage
    /\ res = NoResponse
    /\ log = <<>>
    /\ unhandled = FALSE
    /\ extended = FALSE
    /\ parked = NoRequest
    /\ DevStart

\* await getFormattedMiddlewareOutput(req, middlewareMethod)
EvaluateMw ==
    /\ pc = "mw"
    /\ primary' = getFormattedMiddlewareOutput(middlewareMethod)
    /\ pc' = "evaluated"
    /\ UNCHANGED << config, extended, parked, orchestrator, loaderFunc, cotton_data, renderProps,
                    middlewareMethod, matched, served, modulePath,
                    methodName, imported, module, lookedUp, secondary, loader,
                    page, res, log, unhandled >>

NextMw == EvaluateMw

SpecMw == InitMw /\ [][NextMw]_vars

----------------------------------------------------------------------------
(* Properties *)

Range(s) == { s[i] : i \in 1..Len(s) }

\* position of the first occurrence of e in the sequence s, 0 when absent
IndexOf(s, e) ==
    IF e \in Range(s) THEN CHOOSE i \in 1..Len(s) : s[i] = e /\ \A j \in 1..(i - 1) : s[j] # e
    ELSE 0

HandlerInvoked == "response:call" \in Range(log)

\* a middleware evaluation ended in [error, null]: the middleware threw or rejected
Faulted(r) == ~r.threw /\ r.err # <<>>

\* a middleware evaluation ended in a deny decision
Denied(r) == ~r.threw /\ r.err = <<>> /\ r.out # <<>> /\ r.out[1].allow # <<TRUE>>

\* a middleware evaluation ended in an allow decision
Allowed(r) == ~r.threw /\ r.err = <<>> /\ r.out # <<>> /\ r.out[1].allow = <<TRUE>>

\* C1: once the primary or the secondary middleware has thrown or rejected,
\* with whatever value, the request ends with status 500 and the response
\* handler is not invoked.
C1_MiddlewareFaultGives500 ==
    (Faulted(primary) \/ Faulted(secondary))
        => /\ pc = "done"
           /\ res.status = 500
           /\ ~HandlerInvoked

\* the response the claim of C2 prescribes for the deny decision d
DenyResponseIs(d) ==
    /\ pc = "done"
    /\ res.status = (IF d.code = <<>> THEN 401 ELSE d.code[1])
    /\ res.ctype = (IF d.contentType = <<>> THEN <<"text/plain">> ELSE d.contentType)
    /\ res.body.text = ""
    /\ res.body.msg = d.message
    /\ ~HandlerInvoked

\* C2: when the primary or the secondary middleware returns a deny decision,
\* the response has the decision's code (401 when it has none), the decision's
\* message as its body and the decision's contentType (text/plain when it has
\* none), and the response handler is not invoked.
C2_DenyAnsweredWithDecision ==
    /\ Denied(primary) => DenyResponseIs(primary.out[1])
    /\ Denied(secondary) => DenyResponseIs(secondary.out[1])

\* C3: in an API request the secondary middleware is invoked only after the
\* primary middleware (when the module has one) has been evaluated and has
\* allowed, and the response handler only after both have.
C3_MiddlewareOrder ==
    /\ ("secondary:call" \in Range(log) /\ module.default)
          => /\ IndexOf(log, "primary:settled") > 0
             /\ IndexOf(log, "primary:settled") < IndexOf(log, "secondary:call")
             /\ Allowed(primary)
    /\ (HandlerInvoked /\ module.default)
          => /\ IndexOf(log, "primary:settled") > 0
             /\ IndexOf(log, "primary:settled") < IndexOf(log, "response:call")
             /\ Allowed(primary)
    /\ (HandlerInvoked /\ module.middleware)
          => /\ IndexOf(log, "secondary:settled") > 0
             /\ IndexOf(log, "secondary:settled") < IndexOf(log, "response:call")
             /\ Allowed(secondary)

\* The segments of a path or route key between its slashes, the trailing
\* slash being optional.
SegsOf(p) ==
    LET all == SplitOn(WithTrailingSlash(p), "/")
    IN  SubSeq(all, 2, Len(all) - 1)

IsParamSeg(s) == Len(s) >= 2 /\ s[1] = ":"

Fold(c) ==
    CASE c = "A" -> "a" [] c = "B" -> "b" [] c = "I" -> "i" [] c = "P" -> "p"
      [] c = "X" -> "x" [] OTHER -> c

FoldStr(s) == [i \in 1..Len(s) |-> Fold(s[i])]

\* the pattern of a route key matches a path: segment by segment, a ":name"
\* segment matches any non-empty segment, any other one itself up to case
KeyMatchesPath(key, p) ==
    LET ks == SegsOf(key)
        ps == SegsOf(p)
    IN  /\ Len(ks) = Len(ps)
        /\ \A i \in 1..Len(ks) :
              IF IsParamSeg(ks[i]) THEN ps[i] # <<>>
              ELSE FoldStr(ks[i]) = FoldStr(ps[i])

\* C4: getMatchingRoute returns a route exactly when some key's pattern
\* matches the path, and then the one returned is the first such key in
\* declaration order.
C4_FirstDeclaredMatchWins ==
    pc = "matched"
        => /\ matched.found <=> \E i \in 1..Len(routes) : KeyMatchesPath(routes[i], pathname)
           /\ matched.found
                 => \E i \in 1..Len(routes) :
                       /\ matched.route = routes[i]
                       /\ KeyMatchesPath(routes[i], pathname)
                       /\ \A j \in 1..(i - 1) : ~KeyMatchesPath(routes[j], pathname)

\* a parameterised key declared before a static key wins a path both match
C4_Witness ==
    /\ pc = "matched"
    /\ Len(routes) = 2
    /\ Len(SegsOf(routes[1])) = 1
    /\ Len(SegsOf(routes[2])) = 1
    /\ IsParamSeg(SegsOf(routes[1])[1])
    /\ ~IsParamSeg(SegsOf(routes[2])[1])
    /\ KeyMatchesPath(routes[1], pathname)
    /\ KeyMatchesPath(routes[2], pathname)
    /\ matched.route = routes[1]

\* the route key with its trailing slash added, or removed when it has one
ToggleSlash(key) ==
    IF Len(key) > 1 /\ EndsWithSlash(key) THEN SubSeq(key, 1, Len(key) - 1)
    ELSE IF EndsWithSlash(key) THEN key
    ELSE Append(key, "/")

\* C5: a path without a trailing slash and the same path with one give the
\* same route and the same params, and a key matches the same paths whether
\* it is declared with or without a trailing slash.
C5_TrailingSlashIrrelevant ==
    pc = "matched"
        => /\ ~EndsWithSlash(pathname)
                 => matched = getMatchingRoute(routes, Append(pathname, "/"))
           /\ \A i \in 1..Len(routes) :
                 RouteRegexTest(routes[i], NormalizeUrl(pathname))
                     <=> RouteRegexTest(ToggleSlash(routes[i]), NormalizeUrl(pathname))

\* a path without trailing slash matched by a parameterised key declared
\* with one
C5_Witness ==
    /\ pc = "matched"
    /\ ~EndsWithSlash(pathname)
    /\ matched.found
    /\ EndsWithSlash(matched.route)
    /\ matched.params # EmptyParams

\* the names of the ":name" segments of a key
ParamNames(key) ==
    { SubSeq(SegsOf(key)[i], 2, Len(SegsOf(key)[i])) :
          i \in { j \in 1..Len(SegsOf(key)) : IsParamSeg(SegsOf(key)[j]) } }

\* the positions of the key's segments that are the token ":" + name
PositionsOf(key, name) ==
    { i \in 1..Len(SegsOf(key)) : SegsOf(key)[i] = <<":">> \o name }

\* C6 as claimed: params has exactly the names of the winning key's ":name"
\* tokens, and maps every token to the path segment at the token's position.
C6_ParamsAtEveryToken ==
    (pc = "matched" /\ matched.found)
        => /\ DOMAIN matched.params = ParamNames(matched.route)
           /\ \A n \in ParamNames(matched.route) :
                 \A i \in PositionsOf(matched.route, n) :
                    matched.params[n] = SegsOf(pathname)[i]

Max(S) == CHOOSE x \in S : \A y \in S : y <= x

\* C6 as amended: params has exactly the names of the winning key's ":name"
\* tokens, and maps each name to the path segment at the position of the
\* token; of a name that occurs more than once, at its last position.
C6_ParamsAtLastToken ==
    (pc = "matched" /\ matched.found)
        => /\ DOMAIN matched.params = ParamNames(matched.route)
           /\ \A n \in ParamNames(matched.route) :
                 matched.params[n]
                     = SegsOf(pathname)[Max(PositionsOf(matched.route, n))]

\* a key with two distinct parameters, and a key that repeats a name, each
\* matched by a path with two different segments
C6_Witness ==
    /\ pc = "matched"
    /\ matched.found
    /\ Len(SegsOf(pathname)) = 2
    /\ SegsOf(pathname)[1] # SegsOf(pathname)[2]
    /\ IsParamSeg(SegsOf(matched.route)[1])
    /\ SegsOf(matched.route)[1] = SegsOf(matched.route)[2]

\* C7: paths that differ only in letter case resolve to the same route key
\* (every path resolves to the key its lower-case form resolves to, so any
\* two paths with the same lower-case form resolve alike), and every captured
\* value is a segment of the request path in the letter case the request has
\* it.
C7_CaseInsensitiveStatics ==
    pc = "matched"
        => /\ getMatchingRoute(routes, FoldStr(pathname)).found = matched.found
           /\ getMatchingRoute(routes, FoldStr(pathname)).route = matched.route
           /\ matched.found
                 => \A n \in DOMAIN matched.params :
                       \E i \in PositionsOf(matched.route, n) :
                          matched.params[n] = SegsOf(pathname)[i]

\* an upper-case path segment matched by a lower-case static segment, and an
\* upper-case segment captured as it is
C7_Witness ==
    /\ pc = "matched"
    /\ matched.found
    /\ SegsOf(matched.route) = << <<"a">>, <<":", "x">> >>
    /\ SegsOf(pathname) = << <<"A">>, <<"A">> >>
    /\ matched.params[<<"x">>] = <<"A">>

\* the path prefixes handleRequest is documented to serve as static files
StaticPrefixes ==
    { <<"/", "p", "u", "b", "l", "i", "c", "/">>,
      <<"/", "g", "l", "o", "b", "a", "l", ".", "c", "s", "s">>,
      <<"/", "m", "o", "d", "u", "l", "e", ".", "c", "s", "s">>,
      <<"/", "c", "l", "i", "e", "n", "t">> }

HasStaticPrefix(p) == \E s \in StaticPrefixes : StartsWith(p, s)

HasApiPrefix(p) == StartsWith(p, <<"/", "a", "p", "i">>)

SomeKeyMatches(p) == \E i \in 1..Len(routes) : KeyMatchesPath(routes[i], p)

\* the request went through the page pipeline, the loader before the renderer
PagePipeline ==
    /\ served = "page"
    /\ pc = "done"
          => /\ IndexOf(log, "loader:settled") > 0
             /\ IndexOf(log, "loader:settled") < IndexOf(log, "page:settled")

\* the request was answered 404 text/plain, no loader and no renderer involved
NotFound404 ==
    /\ served = "notfound"
    /\ pc = "done"
    /\ res.status = 404
    /\ res.ctype = <<"text/plain">>
    /\ imported = <<>>
    /\ Range(log) \cap {"loader:import", "loader:call", "loader:settled",
                        "page:import", "page:render", "page:settled"} = {}

\* C8 as claimed: a path that starts with "/api" goes to the API dispatcher
\* and is never matched against the route table; every other path goes to
\* the route matcher, to the page pipeline when a key matches it and to the
\* 404 otherwise.
C8_ApiOrRouteByPath ==
    pc # "start"
        => /\ HasApiPrefix(pathname) => (served = "api" /\ matched = NoMatch)
           /\ (~HasApiPrefix(pathname) /\ SomeKeyMatches(pathname)) => PagePipeline
           /\ (~HasApiPrefix(pathname) /\ ~SomeKeyMatches(pathname)) => NotFound404

\* C8 as amended: the paths that start with /public/, /global.css,
\* /module.css or /client are served as static files whatever the route
\* table holds; of the others, a path that starts with "/api" goes to the
\* API dispatcher and is never matched against the route table, and every
\* other one goes to the route matcher, to the page pipeline when a key
\* matches it and to the 404 otherwise.
C8_StaticThenApiThenRoute ==
    pc # "start"
        => /\ HasStaticPrefix(pathname) => (served = "file" /\ matched = NoMatch)
           /\ (~HasStaticPrefix(pathname) /\ HasApiPrefix(pathname))
                 => (served = "api" /\ matched = NoMatch)
           /\ (~HasStaticPrefix(pathname) /\ ~HasApiPrefix(pathname)
                 /\ SomeKeyMatches(pathname)) => PagePipeline
           /\ (~HasStaticPrefix(pathname) /\ ~HasApiPrefix(pathname)
                 /\ ~SomeKeyMatches(pathname)) => NotFound404

\* a path under /client that a route key matches is served as a file
C8_Witness ==
    /\ pc = "done"
    /\ HasStaticPrefix(pathname)
    /\ SomeKeyMatches(pathname)
    /\ served = "file"

\* a segment that names something: not empty, not "." and not ".."
PlainSeg(s) == s # <<>> /\ s # <<".">> /\ s # <<".", ".">>

\* /api/<m1>/.../<mk>/<name> with k >= 1
WellFormedApiPath(p) ==
    /\ Len(SegsOf(p)) >= 3
    /\ SegsOf(p)[1] = <<"a", "p", "i">>
    /\ \A i \in 1..Len(SegsOf(p)) : PlainSeg(SegsOf(p)[i])

\* C9: for a path /api/<m1>/.../<mk>/<name>, with or without a trailing
\* slash, the method name is <name>, the module path is src/api/<m1>/.../<mk>,
\* that module and no other is imported, and the export looked up is <name>.
C9_ModuleAndMethodFromPath ==
    (pc # "start" /\ WellFormedApiPath(pathname))
        => LET segs == SegsOf(pathname)
               n == Len(segs)
               expected == JoinWith(<<SRC>> \o SubSeq(segs, 1, n - 1), Sep(platform))
           IN  /\ methodName = <<segs[n]>>
               /\ modulePath = expected
               /\ pc = "api_import" \/ imported = <<expected>>
               /\ Range(lookedUp) \subseteq {segs[n]}

\* the request path resolves to a module strictly inside src/api followed by
\* a method name: src/api/<at least one segment>/<method>
NamesModuleAndMethod(p) ==
    LET r == NormalizeSegs(<<SRC>> \o SplitOn(WithTrailingSlash(p), "/"), <<>>)
    IN  /\ Len(r) >= 4
        /\ r[1] = SRC
        /\ r[2] = API

\* C10: an API request whose module path is not strictly inside src/api, or
\* that has no method-name segment, is answered 400, and nothing is imported
\* and no middleware or handler runs.
C10_BadApiPathRejected ==
    (served = "api" /\ ~NamesModuleAndMethod(pathname))
        => /\ pc = "done"
           /\ res.status = 400
           /\ imported = <<>>
           /\ log = <<"api">>
           /\ module = NoModule

\* a path that climbs out of src/api with "..", and one without a method
\* name, rejected on the platform whose separator the regex expects
C10_Witness ==
    /\ platform = "win32"
    /\ served = "api"
    /\ DOTDOT \in Range(SegsOf(pathname))
    /\ Len(SegsOf(pathname)) >= 4
    /\ ~NamesModuleAndMethod(pathname)
    /\ res.status = 400

\* the dispatch has read module[methodName]
LookupReached == module.loaded /\ lookedUp # <<>>

ExportMissing == methodName # <<>> /\ methodName[1] \notin module.exports

MissingExportMsg ==
    "Endpoint '${methodName}' is not defined or exported from '${apiUrl}'."

\* a module without default export goes straight to the lookup of the named
\* export: no primary middleware is evaluated
NoDefaultIsNoError ==
    (module.loaded /\ ~module.default)
        => /\ "primary:call" \notin Range(log)
           /\ primary = NotRun
           /\ lookedUp = <<methodName[1]>>

\* C11 as claimed: a missing default export is not an error and no primary
\* middleware is evaluated; a missing named export gives a 500 response for
\* every module and every outcome of the primary middleware.
C11_MissingExportAlways500 ==
    /\ NoDefaultIsNoError
    /\ (module.loaded /\ ExportMissing /\ pc # "primary_mw")
          => (pc = "done" /\ res.status = 500)

\* C11 as amended: a missing default export is not an error and no primary
\* middleware is evaluated; a missing named export gives the 500 response
\* whenever the module has no primary middleware or its primary middleware
\* has allowed, and then neither the secondary middleware nor the handler is
\* invoked.
C11_MissingExport500OnceAllowed ==
    /\ NoDefaultIsNoError
    /\ (module.loaded /\ ExportMissing /\ (~module.default \/ Allowed(primary)))
          => /\ pc = "done"
             /\ res.status = 500
             /\ res.body.text = MissingExportMsg
             /\ "secondary:call" \notin Range(log)
             /\ ~HandlerInvoked

\* the primary middleware allowed and the named export is missing
C11_Witness ==
    /\ module.loaded
    /\ module.default
    /\ Allowed(primary)
    /\ ExportMissing
    /\ res.status = 500
    /\ res.body.text = MissingExportMsg

\* the method names in upper case
UpperName(m) == CASE m = "post" -> "POST" [] m = "get" -> "GET" [] OTHER -> m

SameMethod(declared, actual) == UpperName(declared) = UpperName(actual)

\* the named export exists and declares a method constraint
MethodConstrained ==
    /\ LookupReached
    /\ methodName[1] \in module.exports
    /\ module.method # <<>>

\* C12: when the named export declares a method and the request has a
\* different one, the response is 404, its message carries the expected and
\* the actual method, and neither the secondary middleware nor the response
\* handler is invoked; when the two are equal up to letter case the dispatch
\* goes on to the secondary middleware, or without one to the handler check.
C12_MethodMismatch404 ==
    MethodConstrained
        => IF ~SameMethod(module.method[1], reqMethod)
           THEN /\ pc = "done"
                /\ res.status = 404
                /\ res.body.msg = <<module.method[1], reqMethod>>
                /\ "secondary:call" \notin Range(log)
                /\ ~HandlerInvoked
           ELSE /\ res.body.msg # <<module.method[1], reqMethod>>
                /\ module.middleware => "secondary:call" \in Range(log)
                /\ (~module.middleware /\ module.response) => HandlerInvoked

\* POST sent to an export that declares GET
C12_Witness ==
    /\ MethodConstrained
    /\ module.method = <<"GET">>
    /\ reqMethod = "POST"
    /\ module.middleware
    /\ res.status = 404
    /\ res.body.msg = <<"GET", "POST">>

\* C13: when the response handler has thrown or its promise has rejected,
\* the response is the 500, whether or not the handler is recognised as
\* asynchronous.
C13_HandlerFailureGives500 ==
    ("response:throw" \in Range(log) \/ "response:reject" \in Range(log))
        => /\ res.ended
           /\ res.status = 500

\* C14: when the named export exists, passes the method check and its
\* middleware, if any, has allowed, but it has no response handler, the
\* response is the 404 and no handler is invoked.
C14_NoResponseHandler404 ==
    (/\ LookupReached
     /\ methodName[1] \in module.exports
     /\ module.method = <<>> \/ SameMethod(module.method[1], reqMethod)
     /\ ~module.middleware \/ Allowed(secondary)
     /\ ~module.response)
        => /\ pc = "done"
           /\ res.status = 404
           /\ res.body.text
                 = "response() is not defined in '${apiUrl}/${methodName}' endpoint."
           /\ ~HandlerInvoked

\* an export whose middleware allowed and that has no response handler
C14_Witness ==
    /\ LookupReached
    /\ module.middleware
    /\ Allowed(secondary)
    /\ ~module.response
    /\ res.status = 404
    /\ pc = "done"

\* C15: every response of the API dispatcher, the 400 rejections included,
\* carries the Access-Control-Allow-Methods header, and the header is set
\* before the handler is invoked.
C15_AllowMethodsOnEveryResponse ==
    /\ (served = "api" /\ res.ended)
          => res.acam = <<"GET, POST, PUT, DELETE, OPTIONS">>
    /\ HandlerInvoked => res.acam = <<"GET, POST, PUT, DELETE, OPTIONS">>

\* { allow: false, code: 401, message: "This action is not allowed.",
\*   contentType: "text/plain" }
TheDefaultDeny ==
    [allow |-> <<FALSE>>, code |-> <<401>>,
     message |-> <<"This action is not allowed.">>,
     contentType |-> <<"text/plain">>, others |-> {}]

\* { allow: true } and nothing else
OnlyAllow ==
    [allow |-> <<TRUE>>, code |-> <<>>, message |-> <<>>, contentType |-> <<>>,
     others |-> {}]

\* the evaluated middleware returned, or resolved to, a value of type ty
Returned(ty) ==
    /\ pc = "evaluated"
    /\ middlewareMethod.ret \in {"return", "resolve"}
    /\ middlewareMethod.val.t = ty

\* the evaluation settled to [null, dec]
Decision(dec) == primary = [threw |-> FALSE, err |-> <<>>, out |-> <<dec>>]

ReturnedAllowObject ==
    /\ Returned("object")
    /\ middlewareMethod.val.has = {"allow"}
    /\ middlewareMethod.val.obj.allow = <<TRUE>>

\* C18 as claimed: true, undefined and the object { allow: true } all give
\* the decision { allow: true }.
C18_SameAllowDecision ==
    (Returned("true") \/ Returned("undefined") \/ ReturnedAllowObject)
        => Decision(OnlyAllow)

\* C18 as amended: true, undefined and the object { allow: true } all give a
\* decision that allows; for true and undefined it is { allow: true }, for
\* the object it is the default deny's code, message and contentType with
\* allow true.
C18_AllAllow ==
    /\ (Returned("true") \/ Returned("undefined") \/ ReturnedAllowObject)
          => /\ ~primary.threw
             /\ primary.err = <<>>
             /\ Len(primary.out) = 1
             /\ primary.out[1].allow = <<TRUE>>
    /\ (Returned("true") \/ Returned("undefined")) => Decision(OnlyAllow)
    /\ ReturnedAllowObject => Decision([TheDefaultDeny EXCEPT !.allow = <<TRUE>>])

C18_Witness ==
    /\ ReturnedAllowObject
    /\ primary.out[1].allow = <<TRUE>>
    /\ primary.out[1].code = <<401>>

\* C19: a value that is not true, undefined, false, a string or an object
\* with keys - a number, null, a function - gives exactly the default deny.
C19_AnythingElseDefaultDeny ==
    (\E ty \in {"null", "number", "function", "bigint"} : Returned(ty))
        => Decision(TheDefaultDeny)

\* C20: the evaluation never rejects; it settles to [error, null] exactly
\* when the middleware threw or rejected, and to [null, decision] otherwise.
C20_EvaluatorTotal ==
    pc = "evaluated"
        => /\ ~primary.threw
           /\ IF middlewareMethod.ret \in {"throw", "reject"}
              THEN primary.err = <<middlewareMethod.exc>> /\ primary.out = <<>>
              ELSE primary.err = <<>> /\ Len(primary.out) = 1

\* getLoaderData has settled for this page request
LoaderHasSettled == served = "page" /\ pc \notin {"start", "page_loader"}

\* getPageHtmlWithData has settled for this page request
PageHasSettled == served = "page" /\ pc \in {"page_read", "done"}

\* the page response was written from the document template
PageWritten == served = "page" /\ pc = "done" /\ "readFile:content" \in Range(log)

\* C21: for a route without loader, getLoaderData resolves to
\* [null, undefined] and no module is imported.
C21_NoLoaderNoImport ==
    (LoaderHasSettled /\ ~routeDef.loader)
        => /\ loader = [err |-> <<>>, data |-> "undefined"]
           /\ sLOADER \notin Range(imported)
           /\ "loader:import" \notin Range(log)
           /\ "loader:call" \notin Range(log)

C21_Witness ==
    /\ LoaderHasSettled
    /\ ~routeDef.loader
    /\ pc = "done"
    /\ res.status = 200
    /\ loader.data = "undefined"

\* the loader result is [diagnostic, null], the diagnostic naming the route
LoaderDiagnostic ==
    /\ Len(loader.err) = 1
    /\ loader.err[1].route = <<matched.route>>
    /\ loader.data = "null"

\* C22: when the loader module cannot be imported, or the loader returns a
\* promise that rejects, getLoaderData resolves to [diagnostic, null] with
\* the route key in the diagnostic; a non-null error always comes with null
\* data.
C22_LoaderFailureIsDiagnostic ==
    LoaderHasSettled
        => /\ (routeDef.loader /\ "loader:call" \notin Range(log)) => LoaderDiagnostic
           /\ loaderFunc.ret = "reject" => LoaderDiagnostic
           /\ loader.err # <<>> => loader.data = "null"

\* C23: a loader that returns v, and one that returns a promise resolving to
\* v, both give [null, v], recognised as asynchronous or not.
C23_SyncAndAsyncLoaders ==
    (LoaderHasSettled /\ loaderFunc.ret \in {"return", "resolve"})
        => loader = [err |-> <<>>, data |-> "value"]

\* a loader not recognised as asynchronous has thrown synchronously
SyncLoaderThrew ==
    /\ LoaderHasSettled
    /\ ~loaderFunc.detected
    /\ loaderFunc.ret = "throw"

\* C24 as claimed: the exception of a loader detected as synchronous is not
\* caught; getLoaderData gives no [error, data] pair and the request ends in
\* the top-level handler's 500.
C24_SyncThrowPropagates ==
    SyncLoaderThrew
        => /\ loader = NoLoader
           /\ pc = "done"
           /\ res.status = 500
           /\ "page:call" \notin Range(log)

\* C24 as amended: the exception of a loader detected as synchronous is
\* caught by getLoaderData, which resolves to ["Either '<loader>' not found
\* or an exception occurred in the loader method for route '<route>'.", null];
\* the request goes on to the rendering.
C24_SyncThrowIsCaught ==
    SyncLoaderThrew
        => /\ loader = [err |-> << [text |-> LoaderImportMsg,
                                    route |-> <<matched.route>>] >>,
                        data |-> "null"]
           /\ ~unhandled
           /\ "page:call" \in Range(log)
           /\ pc = "done" => res.ended

C24_Witness ==
    /\ SyncLoaderThrew
    /\ PageWritten
    /\ res.status = 200
    /\ loader.data = "null"

\* C25: getPageHtmlWithData always resolves to a pair with exactly one
\* non-null element: for a route without page the error "Page not specified
\* in route '<route>'" and no import; when the module is not found, has no
\* default export or the render throws, [error, null].
C25_PageResultIsTotal ==
    PageHasSettled
        => /\ (page.err = <<>>) # (page.html = <<>>)
           /\ ~routeDef.page
                 => /\ page.err = << [text |-> "Page not specified in route '${route}'",
                                      route |-> <<matched.route>>] >>
                    /\ sPAGE \notin Range(imported)
                    /\ "page:import" \notin Range(log)
           /\ (Range(log) \cap {"page:import_failed", "page:no_default",
                                "page:render_threw"} # {})
                 => /\ Len(page.err) = 1
                    /\ page.html = <<>>
           /\ "page:rendered" \in Range(log) => (page.err = <<>> /\ Len(page.html) = 1)

\* a render exception turned into the error of the pair
C25_Witness ==
    /\ PageHasSettled
    /\ "page:render_threw" \in Range(log)
    /\ page.err # <<>>
    /\ page.html = <<>>
    /\ pc = "done"

\* C26: when the loader failed and the template was read, the response is
\* 200 text/html with the loader's diagnostic in the page placeholder.
C26_LoaderFailureShownIn200 ==
    (PageWritten /\ loader.err # <<>>)
        => /\ res.status = 200
           /\ res.ctype = <<"text/html">>
           /\ res.body.pageSlot = <<loader.err[1]>>

\* C27: the page placeholder holds the loader error when the loader failed
\* (also when the render failed too), else the page error when the render
\* failed, else the rendered HTML.
C27_LoaderErrorTakesPrecedence ==
    PageWritten
        => res.body.pageSlot
              = << IF loader.err # <<>> THEN loader.err[1]
                   ELSE IF page.err # <<>> THEN page.err[1]
                   ELSE [text |-> page.html[1], route |-> <<>>] >>

\* C28 as claimed: the script block with the serialized Cotton Data is in
\* the response exactly when the loader and the render both succeeded.
C28_DataScriptOnlyOnSuccess ==
    PageWritten
        => ((res.body.dataScript # <<>>) <=> (loader.err = <<>> /\ page.err = <<>>))

\* C28 as amended: the script block with the serialized Cotton Data is in
\* every page response; the script tag that loads /client/main.js is in the
\* response exactly when the loader and the render both succeeded.
C28_MainScriptOnlyOnSuccess ==
    PageWritten
        => /\ res.body.dataScript # <<>>
           /\ res.body.mainScript <=> (loader.err = <<>> /\ page.err = <<>>)

C28_Witness ==
    /\ PageWritten
    /\ loader.err # <<>>
    /\ page.err = <<>>
    /\ res.body.dataScript # <<>>
    /\ ~res.body.mainScript

\* number of occurrences of e in the sequence s
Count(s, e) == Cardinality({ i \in 1..Len(s) : s[i] = e })

\* what JSON.stringify leaves of the Cotton Data's loader
JsonOfLoader(d) ==
    CASE d = "undefined" -> "absent" [] d = "promise" -> "{}" [] OTHER -> d

C30_NothingCrossesUnhandled ==
    pc = "done"
        => /\ \/ res.ended
              \/ "response:return" \in Range(log)
              \/ "response:resolve" \in Range(log)
           /\ ~(unhandled /\ ~res.ended)

\* the response of the API Dispatcher's catch for the middleware tier `tier`
\* when the middleware throws an Error
FaultResponse(tier) ==
    LET e == IF tier = "primary"
             THEN PrimaryEffect(variant, Pair(<<"Error">>, <<>>))
             ELSE SecondaryEffect(variant, Pair(<<"Error">>, <<>>))
    IN  Respond(SetAcam(NoResponse), e.status, e.ctype, e.body)

\* C32: the response to an API module import failure is the fixed 500, and
\* the response to a middleware that threw or rejected with any value is the
\* response the same request gets when the value is an Error: status 500,
\* the same headers and the same body.
C32_FaultResponseIgnoresException ==
    /\ ("import:settled" \in Range(log) /\ ~module.loaded)
          => /\ pc = "done"
             /\ res = Respond(SetAcam(NoResponse), 500, "text/plain",
                              Body(PrimaryErrorMsg, <<>>))
    /\ Faulted(primary)
          => /\ pc = "done"
             /\ res = FaultResponse("primary")
             /\ res.status = 500
    /\ Faulted(secondary)
          => /\ pc = "done"
             /\ res = FaultResponse("secondary")
             /\ res.status = 500

\* C34: the script tag loading /client/main.js is in a page response exactly
\* when neither the loader nor the page render gave an error.
C34_MainScriptIffNoError ==
    PageWritten
        => (res.body.mainScript <=> (loader.err = <<>> /\ page.err = <<>>))

\* loader and render succeeded and the entry script tag is in the response
C34_Witness ==
    /\ PageWritten
    /\ loader.err = <<>>
    /\ page.err = <<>>
    /\ loader.data = "value"
    /\ res.body.mainScript

\* the function under evaluation returned a promise without being
\* recognised as asynchronous, and the evaluation has ended
UndetectedPromise ==
    /\ pc = "evaluated"
    /\ ~middlewareMethod.detected
    /\ middlewareMethod.ret \in {"resolve", "reject"}

\* C35: for a middleware that is not recognised as asynchronous and returns
\* a promise, the evaluation gives what it gives for a function returning
\* the promise's resolved value directly, and [error, null] with the
\* rejection's value when the promise rejects.
C35_UndetectedPromiseAwaited ==
    UndetectedPromise
        => IF middlewareMethod.ret = "reject"
           THEN primary = [threw |-> FALSE, err |-> <<middlewareMethod.exc>>,
                           out |-> <<>>]
           ELSE primary = FormatOutput(middlewareMethod.val)

\* a promise resolving to true gives the allow decision, which the promise
\* object itself would not
C35_Witness ==
    /\ UndetectedPromise
    /\ middlewareMethod.ret = "resolve"
    /\ middlewareMethod.val.t = "true"
    /\ Allowed(primary)

\* number of status lines the API Dispatcher itself has written: the
\* writeHead calls made on the response, less the handler's own
DispatcherWrites == res.heads - Count(log, "response:write")

\* C36: in an API request the dispatcher writes at most one response, none
\* when the response handler was invoked and returned or resolved, and none
\* once the handler has written one.
C36_DispatcherWritesAtMostOnce ==
    served = "api"
        => /\ DispatcherWrites \in {0, 1}
           /\ (Range(log) \cap {"response:return", "response:resolve"} # {})
                 => DispatcherWrites = 0
           /\ "response:write" \in Range(log) => DispatcherWrites = 0
           /\ res.heads <= 1

\* the handler wrote its response and threw: the catch wrote nothing more
C36_Witness ==
    /\ served = "api"
    /\ pc = "done"
    /\ "response:write" \in Range(log)
    /\ "response:throw" \in Range(log)
    /\ res.status = 200
    /\ res.heads = 1

\* the processes of kind k that run
Alive(k) == { p \in 1..Len(procs) : procs[p].kind = k /\ procs[p].alive }

\* the builders forked for a reload that are building
Rebuilding ==
    { b \in Alive("builder") : procs[b].onMessage = "reload" }

\* C33: every reload attempt eventually ends: whenever isReloadInProgress
\* is true it is false again later, whichever status the builder reports.
C33_ReloadEventuallyEnds ==
    (isReloadInProgress = TRUE) ~> (isReloadInProgress = FALSE)

\* the builders forked for a reload so far
Rebuilds ==
    { b \in 1..Len(procs) :
          procs[b].kind = "builder" /\ procs[b].onMessage = "reload" }

\* C37: a watcher event that finds the throttle timer pending replaces it:
\* at most one timer is pending, each burst of events has one expiry (its
\* timer pending, or expired once), and there are no more rebuilds than
\* expiries.
C37_OneExpiryPerBurst ==
    /\ Cardinality(timers) <= 1
    /\ expiries + Cardinality(timers) = bursts
    /\ Cardinality(Rebuilds) <= expiries

\* three events in one burst, one expiry, one rebuild
C37_Witness ==
    /\ changes = 3
    /\ bursts = 1
    /\ expiries = 1
    /\ timers = {}
    /\ Cardinality(Rebuilds) = 1

\* C38: at most one server process is alive and at most one reload rebuild
\* is running; while a reload's builder runs no server is alive or
\* connected; every server came from a builder that reported "done"; and a
\* timer expiry during a reload changes no process and forks none.
C38_OneServerOneRebuild ==
    /\ [](/\ Cardinality(Alive("server")) <= 1
          /\ Cardinality(Rebuilding) <= 1
          /\ Rebuilding # {}
                => \A p \in 1..Len(procs) :
                      procs[p].kind = "server" => ~procs[p].alive /\ ~procs[p].connected
          /\ \A p \in 1..Len(procs) :
                procs[p].kind = "server"
                   => /\ procs[p].from \in 1..(p - 1)
                      /\ procs[procs[p].from].kind = "builder"
                      /\ procs[procs[p].from].status = "done")
    /\ [][(isReloadInProgress /\ expiries' # expiries)
             => (procs' = procs /\ builderProcess' = builderProcess
                 /\ serverProcess' = serverProcess)]_vars

\* a reload has replaced the server: the old one closed, one builder ran,
\* the new server is the only one alive
C38_Witness ==
    /\ Len(procs) = 4
    /\ procs[2].kind = "server"
    /\ ~procs[2].alive
    /\ procs[2].killed
    /\ procs[3].onMessage = "reload"
    /\ procs[3].status = "done"
    /\ Alive("server") = {4}
    /\ serverProcess = 4
    /\ ~isReloadInProgress

\* nothing is pending: no timer, no build, no server about to close
Quiescent ==
    /\ timers = {}
    /\ Alive("builder") = {}
    /\ \A p \in Alive("server") : ~procs[p].killed

\* no build has failed and no server has ended by itself
BuildsSucceeded ==
    \A p \in 1..Len(procs) :
        /\ procs[p].status # "error"
        /\ (procs[p].kind = "server" /\ ~procs[p].alive) => procs[p].killed

\* C39: once nothing is pending and all builds have succeeded, the running
\* server comes from a build that started after the last watcher event.
C39_NoChangeLost ==
    (Quiescent /\ BuildsSucceeded /\ serverProcess # 0)
        => /\ procs[serverProcess].alive
           /\ procs[serverProcess].built = changes

\* the response handler that left its trace in the history l
HandlerOf(l) ==
    [detected |-> "response:awaited" \in Range(l),
     writes |-> "response:write" \in Range(l),
     ret |-> CHOOSE r \in {"return", "throw", "resolve", "reject"} :
                 ("response:" \o r) \in Range(l)]

\* The response the request of task c receives when it is processed alone:
\* the pipeline applied to the request's own path and method, the route
\* table, and what the request's own modules did (the endpoint module, the
\* middleware outcomes, the handler, the loader, the page, the file reads).
AloneResponse(c) ==
    LET answer(e, r) == Respond(r, e.status, e.ctype, e.body)
        r0 == SetAcam(NoResponse)
        name == ApiPath(platform, c.pathname).method[1]
        m == getMatchingRoute(routes, c.pathname)
        readFailed == "readFile:error" \in Range(c.log)
        atResponse ==
            IF ResponseEffect(c.module).respond
            THEN answer(ResponseEffect(c.module), r0)
            ELSE HandlerEffect(HandlerOf(c.log), r0).res
        atSecondary ==
            IF SecondaryEffect(variant, c.secondary).respond
            THEN answer(SecondaryEffect(variant, c.secondary), r0)
            ELSE atResponse
        atLookup ==
            IF LookupEffect(c.module, name, c.reqMethod).respond
            THEN answer(LookupEffect(c.module, name, c.reqMethod), r0)
            ELSE IF c.module.middleware THEN atSecondary ELSE atResponse
        atPrimary ==
            IF PrimaryEffect(variant, c.primary).respond
            THEN answer(PrimaryEffect(variant, c.primary), r0)
            ELSE atLookup
        api ==
            IF ApiPrologue(platform, c.pathname).respond
            THEN answer(ApiPrologue(platform, c.pathname), NoResponse)
            ELSE IF ~c.module.loaded
            THEN Respond(r0, 500, "text/plain", Body(PrimaryErrorMsg, <<>>))
            ELSE IF c.module.default THEN atPrimary ELSE atLookup
        l == LoaderResult(m.route, routeDef.loader,
                          "loader:call" \in Range(c.log), c.loaderFunc)
        outcome == CHOOSE o \in PageOutcomes :
                       routeDef.page => ("page:" \o o) \in Range(c.log)
        pg == PageResult(m.route, routeDef.page, outcome,
                         IF c.page.html = <<>> THEN "" ELSE c.page.html[1])
    IN  CASE Dispatch(c.pathname) = "file" -> FileResponse(readFailed, NoResponse)
          [] Dispatch(c.pathname) = "api" -> api
          [] OTHER ->
                IF m.found
                THEN TemplateResponse(readFailed, l, pg,
                                      CottonData(variant, m.route, m.params, l.data),
                                      NoResponse)
                ELSE Respond(NoResponse, 404, "text/plain",
                             Body("404 Not Found", <<>>))

\* C31: of two requests interleaved at their awaits, each one that has run
\* to its end has the response (status, headers, body) it receives when
\* processed alone; and no step of either request changes the route table
\* or the configuration the requests share.
C31_RequestsDoNotInterfere ==
    /\ [](/\ pc = "done" => res = AloneResponse(Task)
          /\ (parked # NoRequest /\ parked.pc = "done")
                => parked.res = AloneResponse(parked))
    /\ [][/\ routes' = routes
          /\ routeDef' = routeDef
          /\ platform' = platform
          /\ variant' = variant]_vars

\* an API request and a page request have both run to their end, each
\* suspended and resumed while the other ran
C31_Witness ==
    /\ pc = "done"
    /\ parked # NoRequest
    /\ parked.pc = "done"
    /\ served = "api"
    /\ parked.served = "page"
    /\ Count(log, "resumed") >= 2
    /\ Count(parked.log, "resumed") >= 2
    /\ "response:settled" \in Range(log)
    /\ res.status = 200
    /\ parked.res.status = 200

====
